---- MODULE Spec2Model ----
(***************************************************************************)
(* Model of EigenvalueDecomposition<T,TRI,L> (src/EigenvalueDecomposition  *)
(* .hpp): the two constructors, the four private algorithm steps tred2,    *)
(* tql2, orthes and hqr2, and the accessors.                               *)
(*                                                                         *)
(* Numbers.  T is a template parameter.  The model instantiates it with a  *)
(* binary floating-point format in the style of IEEE 754 that has a        *)
(* Prec-bit significand and an ExpBits-bit exponent (Prec = 8 and          *)
(* ExpBits = 8 is the bfloat16 format), the widest arithmetic whose        *)
(* intermediate integers stay below 2^31.  Every operation rounds its      *)
(* exact result once, to nearest, ties to even, with gradual underflow, as *)
(* the hardware does for T = double.  A number is represented by its       *)
(* signed ordinal  sign * (E * 2^FracBits + fraction)  (E the biased       *)
(* exponent field), so that  <  and  =  on numbers are  <  and  =  on      *)
(* ordinals.  Inf and -Inf are the infinities, the ordinals after the      *)
(* largest finite number; NF is NaN, absorbing, for which every comparison *)
(* is false; there is no negative zero.                                    *)
(***************************************************************************)
EXTENDS Integers, Sequences, FiniteSets, TLC

Prec == 8
ExpBits == 8
FracBits == Prec - 1
Bias == 2^(ExpBits - 1) - 1
EMinU == 1 - Bias - FracBits
CodeMax == (2^ExpBits - 1) * 2^FracBits
NF == 2^30
Inf == CodeMax
IsInf(a) == a = Inf \/ a = -Inf
Guard == 30 - Prec

\* A local variable: Let([x \in {v} |-> e]) is e with v for x.
Let(f) == f[CHOOSE x \in DOMAIN f : TRUE]

Pow2(k) == 2^k
Abs(x) == IF x < 0 THEN -x ELSE x

BitLen(x) ==
  IF x < 65536
  THEN IF x < 256
       THEN IF x < 16
            THEN IF x < 4 THEN (IF x < 2 THEN x ELSE 2) ELSE (IF x < 8 THEN 3 ELSE 4)
            ELSE IF x < 64 THEN (IF x < 32 THEN 5 ELSE 6) ELSE (IF x < 128 THEN 7 ELSE 8)
       ELSE IF x < 4096
            THEN IF x < 1024 THEN (IF x < 512 THEN 9 ELSE 10) ELSE (IF x < 2048 THEN 11 ELSE 12)
            ELSE IF x < 16384 THEN (IF x < 8192 THEN 13 ELSE 14) ELSE (IF x < 32768 THEN 15 ELSE 16)
  ELSE IF x < 16777216
       THEN IF x < 1048576
            THEN IF x < 262144 THEN (IF x < 131072 THEN 17 ELSE 18) ELSE (IF x < 524288 THEN 19 ELSE 20)
            ELSE IF x < 4194304 THEN (IF x < 2097152 THEN 21 ELSE 22) ELSE (IF x < 8388608 THEN 23 ELSE 24)
       ELSE IF x < 268435456
            THEN IF x < 67108864 THEN (IF x < 33554432 THEN 25 ELSE 26) ELSE (IF x < 134217728 THEN 27 ELSE 28)
            ELSE IF x < 536870912 THEN 29 ELSE IF x < 1073741824 THEN 30 ELSE 31

\* The significand (signed) and the exponent of a number: value = Mant * 2^Expo.
Mant(c) ==
      Let([a \in {Abs(c)} |->
      Let([m \in {IF a < Pow2(FracBits) THEN a ELSE Pow2(FracBits) + (a % Pow2(FracBits))} |->
     IF c < 0 THEN -m ELSE m])])
Expo(c) ==
      Let([E \in {Abs(c) \div Pow2(FracBits)} |->
     IF E = 0 THEN EMinU ELSE E - Bias - FracBits])

\* The number nearest to N * 2^k (round to nearest, ties to even); an infinity on overflow.
Enc(N, k) ==
      Let([a \in {Abs(N)} |->
      Let([L \in {BitLen(a)} |->
      Let([ue \in {IF L + k - Prec > EMinU THEN L + k - Prec ELSE EMinU} |->
      Let([sh \in {ue - k} |->
      Let([q \in {IF sh <= 0 THEN a * Pow2(-sh)
                  ELSE IF sh > L + 1 THEN 0
                  ELSE     Let([p \in {Pow2(sh)} |->
                           Let([q0 \in {a \div p} |->
                           Let([r \in {a % p} |->
                           Let([h \in {p \div 2} |->
                          IF r > h \/ (r = h /\ q0 % 2 = 1) THEN q0 + 1 ELSE q0])])])])} |->
      Let([code \in {(ue - EMinU) * Pow2(FracBits) + q} |->
     IF a = 0 THEN 0
     ELSE IF code >= CodeMax THEN (IF N < 0 THEN -Inf ELSE Inf)
     ELSE IF N < 0 THEN -code ELSE code])])])])])])

FNeg(a) == IF a = NF THEN NF ELSE -a
FAbs(a) == IF a = NF THEN NF ELSE Abs(a)
FAdd(a, b) ==
  IF a = NF \/ b = NF THEN NF
  ELSE IF IsInf(a) THEN (IF b = -a THEN NF ELSE a)
  ELSE IF IsInf(b) THEN b
  ELSE IF a = 0 THEN b
  ELSE IF b = 0 THEN a
  ELSE     Let([ea \in {Expo(a)} |->
           Let([eb \in {Expo(b)} |->
          IF ea - eb > Prec + 2 THEN a
          ELSE IF eb - ea > Prec + 2 THEN b
          ELSE     Let([e0 \in {IF ea < eb THEN ea ELSE eb} |->
                  Enc(Mant(a) * Pow2(ea - e0) + Mant(b) * Pow2(eb - e0), e0)])])])
FSub(a, b) == FAdd(a, FNeg(b))
FMul(a, b) ==
  IF a = NF \/ b = NF THEN NF
  ELSE IF IsInf(a) \/ IsInf(b)
  THEN IF a = 0 \/ b = 0 THEN NF ELSE IF (a < 0) # (b < 0) THEN -Inf ELSE Inf
  ELSE Enc(Mant(a) * Mant(b), Expo(a) + Expo(b))
FDiv(a, b) ==
  IF a = NF \/ b = NF THEN NF
  ELSE IF IsInf(a)
  THEN IF IsInf(b) THEN NF ELSE IF (a < 0) # (b < 0) THEN -Inf ELSE Inf
  ELSE IF IsInf(b) THEN 0
  ELSE IF b = 0
  THEN IF a = 0 THEN NF ELSE IF a < 0 THEN -Inf ELSE Inf
  ELSE     Let([ma \in {Mant(a)} |->
           Let([mb \in {Mant(b)} |->
           Let([num \in {Abs(ma) * Pow2(Guard)} |->
           Let([Q \in {num \div Abs(mb)} |->
           Let([N \in {2 * Q + (IF num % Abs(mb) = 0 THEN 0 ELSE 1)} |->
          Enc(IF (ma < 0) # (mb < 0) THEN -N ELSE N, Expo(a) - Expo(b) - Guard - 1)])])])])])

\* floor(sqrt(x)) for 0 <= x < 2^30, by bisection on the bits of the root.
RECURSIVE ISqrtBits(_, _, _)
ISqrtBits(x, r, b) ==
  IF b = 0 THEN r
  ELSE     Let([t \in {r + b} |->    ISqrtBits(x, IF t * t <= x THEN t ELSE r, b \div 2)])
ISqrt(x) == ISqrtBits(x, 0, 16384)

FSqrt(a) ==
  IF a = NF \/ a < 0 THEN NF
  ELSE IF a = Inf THEN Inf
  ELSE     Let([m \in {Mant(a)} |->
           Let([e0 \in {Expo(a)} |->
           Let([g \in {IF (e0 - Guard) % 2 = 0 THEN Guard ELSE Guard - 1} |->
           Let([na \in {m * Pow2(g)} |->
           Let([r \in {ISqrt(na)} |->
           Let([N \in {2 * r + (IF r * r = na THEN 0 ELSE 1)} |->
          Enc(N, ((e0 - g) \div 2) - 1)])])])])])])

\* Comparisons: false when an operand is NaN.
FLt(a, b) == a # NF /\ b # NF /\ a < b
FLe(a, b) == a # NF /\ b # NF /\ a <= b
FGt(a, b) == FLt(b, a)
FGe(a, b) == FLe(b, a)
FEq(a, b) == a # NF /\ b # NF /\ a = b
FNe(a, b) == ~FEq(a, b)
\* std::max(a, b) is (a < b) ? b : a;  std::min(a, b) is (b < a) ? b : a
FMax(a, b) == IF FLt(a, b) THEN b ELSE a

\* Literals.
FromInt(i) == Enc(i, 0)
FromRat(num, den) == FDiv(FromInt(num), FromInt(den))
Zero == FromInt(0)
One == FromInt(1)
Two == FromInt(2)
\* std::numeric_limits<T>::epsilon()
eps == Enc(1, 1 - Prec)

\* Bounds of the model: the largest matrix dimension, and the value at which
\* the iteration counters stop counting (no test in the code tells two
\* counts above 30 apart).
MaxN == 3
IterCap == 31

(***************************************************************************)
(* Loops.  for (i = lo; i <= hi; ++i) and for (i = hi; i >= lo; --i) over  *)
(* a frame s, a record of the variables the loop body assigns.  The frame  *)
(* is evaluated before the loop starts (DOMAIN s) and before each pass     *)
(* (Let), which keeps the evaluation of nested loops shallow.              *)
(***************************************************************************)
For(lo, hi, s, B(_, _)) ==
  IF hi < lo \/ DOMAIN s = {} THEN s
  ELSE LET st[i \in (lo - 1)..hi] ==
         IF i < lo THEN s ELSE Let([t \in {st[i - 1]} |-> B(i, t)])
       IN st[hi]
ForDown(hi, lo, s, B(_, _)) ==
  IF hi < lo \/ DOMAIN s = {} THEN s
  ELSE LET st[i \in lo..(hi + 1)] ==
         IF i > hi THEN s ELSE Let([t \in {st[i + 1]} |-> B(i, t)])
       IN st[lo]

\* Storage that was not yet assigned (a member before the constructor sets it,
\* the content of a buffer after resize(.., false)).
Indet == NF
NewVector(k) == [i \in 0..(k - 1) |-> Indet]
NewMatrix(k) == [i \in 0..(k - 1) |-> [j \in 0..(k - 1) |-> Indet]]
Empty == << >>
\* identity_matrix<T>(n)
identity_matrix(k) == [i \in 0..(k - 1) |-> [j \in 0..(k - 1) |-> IF i = j THEN One ELSE Zero]]

(***************************************************************************)
(* tred2: symmetric Householder reduction to tridiagonal form.             *)
(* Frame: d, e, V and the locals scale, h, f, g; refl collects the rows i  *)
(* for which a reflection is formed and den the denominators of the        *)
(* divisions executed.                                                     *)
(***************************************************************************)
tred2_zero_scale(i, s) ==
  For(0, i - 1, [s EXCEPT !.e[i] = s.d[i - 1]],
      LAMBDA j, t: [t EXCEPT !.d[j] = t.V[i - 1][j], !.V[i][j] = Zero, !.V[j][i] = Zero])

tred2_householder(i, s) ==
      \* Generate Householder vector.
      Let([s1 \in {For(0, i - 1, [s EXCEPT !.refl = s.refl \cup {i}], LAMBDA k, t:
                           Let([dk \in {FDiv(t.d[k], t.scale)} |->
                          [t EXCEPT !.d[k] = dk, !.h = FAdd(t.h, FMul(dk, dk)),
                                    !.den = t.den \cup {t.scale}]]))} |->
      Let([f1 \in {s1.d[i - 1]} |->
      Let([g0 \in {FSqrt(s1.h)} |->
      Let([g1 \in {IF FGt(f1, Zero) THEN FNeg(g0) ELSE g0} |->
      Let([s2 \in {[s1 EXCEPT !.f = f1, !.g = g1,
                              !.e[i] = FMul(s1.scale, g1),
                              !.h = FSub(s1.h, FMul(f1, g1)),
                              !.d[i - 1] = FSub(f1, g1)]} |->
      Let([s3 \in {For(0, i - 1, s2, LAMBDA j, t: [t EXCEPT !.e[j] = Zero])} |->
      \* Apply similarity transformation to remaining columns.
      Let([s4 \in {For(0, i - 1, s3, LAMBDA j, t:
                           Let([fj \in {t.d[j]} |->
                           Let([t1 \in {[t EXCEPT !.f = fj, !.V[j][i] = fj,
                                                  !.g = FAdd(t.e[j], FMul(t.V[j][j], fj))]} |->
                           Let([t2 \in {For(j + 1, i - 1, t1, LAMBDA k, u:
                                            [u EXCEPT !.g = FAdd(u.g, FMul(u.V[k][j], u.d[k])),
                                                      !.e[k] = FAdd(u.e[k], FMul(u.V[k][j], u.f))])} |->
                          [t2 EXCEPT !.e[j] = t2.g]])])]))} |->
      Let([s5 \in {For(0, i - 1, [s4 EXCEPT !.f = Zero], LAMBDA j, t:
                           Let([ej \in {FDiv(t.e[j], t.h)} |->
                          [t EXCEPT !.e[j] = ej, !.f = FAdd(t.f, FMul(ej, t.d[j])),
                                    !.den = t.den \cup {t.h}]]))} |->
      Let([hh \in {FDiv(s5.f, FAdd(s5.h, s5.h))} |->
      Let([s6 \in {For(0, i - 1, [s5 EXCEPT !.den = s5.den \cup {FAdd(s5.h, s5.h)}],
                        LAMBDA j, t: [t EXCEPT !.e[j] = FSub(t.e[j], FMul(hh, t.d[j]))])} |->
     For(0, i - 1, s6, LAMBDA j, t:
             Let([t1 \in {[t EXCEPT !.f = t.d[j], !.g = t.e[j]]} |->
             Let([t2 \in {For(j, i - 1, t1, LAMBDA k, u:
                              [u EXCEPT !.V[k][j] = FSub(u.V[k][j],
                                                         FAdd(FMul(u.f, u.e[k]), FMul(u.g, u.d[k])))])} |->
            [t2 EXCEPT !.d[j] = t2.V[i - 1][j], !.V[i][j] = Zero]])]))])])])])])])])])])])

tred2_reduce_always_reflects(i, s) ==
      Let([s1 \in {For(0, i - 1, [s EXCEPT !.scale = Zero, !.h = Zero],
                       LAMBDA k, t: [t EXCEPT !.scale = FAdd(t.scale, FAbs(t.d[k]))])} |->
      Let([s2 \in {tred2_householder(i, s1)} |->
     [s2 EXCEPT !.d[i] = s2.h]])])
tred2_reduce(i, s) ==
      \* Scale to avoid under/overflow.
      Let([s1 \in {For(0, i - 1, [s EXCEPT !.scale = Zero, !.h = Zero],
                       LAMBDA k, t: [t EXCEPT !.scale = FAdd(t.scale, FAbs(t.d[k]))])} |->
      Let([s2 \in {IF FEq(s1.scale, Zero) THEN tred2_zero_scale(i, s1) ELSE tred2_householder(i, s1)} |->
     [s2 EXCEPT !.d[i] = s2.h]])])

tred2_accumulate(n0, i, s) ==
      Let([s1 \in {[s EXCEPT !.V[n0 - 1][i] = s.V[i][i]]} |->
      Let([s2 \in {[s1 EXCEPT !.V[i][i] = One, !.h = s1.d[i + 1]]} |->
      Let([s3 \in {IF FNe(s2.h, Zero)
                   THEN     Let([a1 \in {For(0, i, s2, LAMBDA k, t:
                                                [t EXCEPT !.d[k] = FDiv(t.V[k][i + 1], t.h),
                                                          !.den = t.den \cup {t.h}])} |->
                           For(0, i, a1, LAMBDA j, t:
                                   Let([t1 \in {For(0, i, [t EXCEPT !.g = Zero], LAMBDA k, u:
                                                    [u EXCEPT !.g = FAdd(u.g, FMul(u.V[k][i + 1], u.V[k][j]))])} |->
                                  For(0, i, t1, LAMBDA k, u:
                                      [u EXCEPT !.V[k][j] = FSub(u.V[k][j], FMul(u.g, u.d[k]))])]))])
                   ELSE s2} |->
     For(0, i, s3, LAMBDA k, t: [t EXCEPT !.V[k][i + 1] = Zero])])])])

tred2(n0, d0, e0, V0) ==
      Let([s0 \in {[d |-> d0, e |-> e0, V |-> V0, scale |-> Zero, h |-> Zero, f |-> Zero, g |-> Zero,
                    refl |-> {}, den |-> {}]} |->
      Let([s1 \in {For(0, n0 - 1, s0, LAMBDA j, t: [t EXCEPT !.d[j] = t.V[n0 - 1][j]])} |->
      \* Householder reduction to tridiagonal form.
      Let([s2 \in {ForDown(n0 - 1, 1, s1, tred2_reduce)} |->
      \* Accumulate transformations.
      Let([s3 \in {For(0, n0 - 2, s2, LAMBDA i, t: tred2_accumulate(n0, i, t))} |->
      Let([s4 \in {For(0, n0 - 1, s3, LAMBDA j, t:
                       [t EXCEPT !.d[j] = t.V[n0 - 1][j], !.V[n0 - 1][j] = Zero])} |->
     [s4 EXCEPT !.V[n0 - 1][n0 - 1] = One, !.e[0] = Zero]])])])])])

(***************************************************************************)
(* boost::math::hypot(x, y): sqrt(x^2 + y^2) without intermediate overflow. *)
(* With an infinite argument it raises std::overflow_error.                *)
(***************************************************************************)
hypot_throws(x0, y0) == FAbs(x0) = Inf \/ FAbs(y0) = Inf
hypot(x0, y0) ==
      Let([ax \in {FAbs(x0)} |->
      Let([ay \in {FAbs(y0)} |->
      Let([x \in {IF FGt(ay, ax) THEN ay ELSE ax} |->
      Let([y \in {IF FGt(ay, ax) THEN ax ELSE ay} |->
     IF x = NF \/ y = NF THEN NF
     ELSE IF FGe(FMul(x, eps), y) THEN x
     ELSE     Let([rat \in {FDiv(y, x)} |->
             FMul(x, FSqrt(FAdd(One, FMul(rat, rat))))])])])])])

(***************************************************************************)
(* tql2: symmetric tridiagonal QL algorithm.                               *)
(***************************************************************************)
\* for (i = 1; i < n; ++i) e(i-1) = e(i);  e(n-1) = 0.0;
tql2_shift(n0, e0) ==
      Let([s \in {For(1, n0 - 1, [e |-> e0], LAMBDA i, t: [t EXCEPT !.e[i - 1] = t.e[i]])} |->
     [s.e EXCEPT ![n0 - 1] = Zero]])

\* Find small subdiagonal element: the m at which  while (m < n)  stops.
tql2_find(n0, e0, l, tst1) ==
      Let([small \in {{m \in l..(n0 - 1) : FLe(FAbs(e0[m]), FMul(eps, tst1))}} |->
     IF small = {} THEN n0 ELSE CHOOSE m \in small : \A k \in small : m <= k])

\* One pass of the body of  do { ... } while (abs(e(l)) > eps*tst1).
tql2_iterate(n0, l, m, d0, e0, V0, f0) ==
      \* Compute implicit shift
      Let([g \in {d0[l]} |->
      Let([p \in {FDiv(FSub(d0[l + 1], g), FMul(Two, e0[l]))} |->
      Let([r0 \in {hypot(p, One)} |->
      Let([r \in {IF FLt(p, Zero) THEN FNeg(r0) ELSE r0} |->
      Let([dl \in {FDiv(e0[l], FAdd(p, r))} |->
      Let([dl1 \in {FMul(e0[l], FAdd(p, r))} |->
      Let([h \in {FSub(g, dl)} |->
      Let([d1 \in {[[d0 EXCEPT ![l] = dl] EXCEPT ![l + 1] = dl1]} |->
      Let([s1 \in {For(l + 2, n0 - 1, [d |-> d1], LAMBDA i, t: [t EXCEPT !.d[i] = FSub(t.d[i], h)])} |->
      \* Implicit QL transformation.
      Let([el1 \in {e0[l + 1]} |->
      Let([q0 \in {[d |-> s1.d, e |-> e0, V |-> V0, p |-> s1.d[m], c |-> One, c2 |-> One, c3 |-> One,
                    s |-> Zero, s2 |-> Zero, thrown |-> hypot_throws(p, One)]} |->
      Let([q1 \in {ForDown(m - 1, l, q0, LAMBDA i, t:
                           Let([gi \in {FMul(t.c, t.e[i])} |->
                           Let([hi \in {FMul(t.c, t.p)} |->
                           Let([ri \in {hypot(t.p, t.e[i])} |->
                           Let([sn \in {FDiv(t.e[i], ri)} |->
                           Let([cn \in {FDiv(t.p, ri)} |->
                           Let([t1 \in {[t EXCEPT !.thrown = t.thrown \/ hypot_throws(t.p, t.e[i]),
                                                  !.c3 = t.c2, !.c2 = t.c, !.s2 = t.s,
                                                  !.e[i + 1] = FMul(t.s, ri),
                                                  !.s = sn, !.c = cn,
                                                  !.p = FSub(FMul(cn, t.d[i]), FMul(sn, gi)),
                                                  !.d[i + 1] = FAdd(hi, FMul(sn, FAdd(FMul(cn, gi), FMul(sn, t.d[i]))))]} |->
                          \* Accumulate transformation.
                          For(0, n0 - 1, t1, LAMBDA k, u:
                                  Let([hk \in {u.V[k][i + 1]} |->
                                 [u EXCEPT !.V[k][i + 1] = FAdd(FMul(sn, u.V[k][i]), FMul(cn, hk)),
                                           !.V[k][i] = FSub(FMul(cn, u.V[k][i]), FMul(sn, hk))]]))])])])])])]))} |->
      Let([pn \in {FDiv(FMul(FMul(FMul(FMul(FNeg(q1.s), q1.s2), q1.c3), el1), q1.e[l]), dl1)} |->
     [d |-> [q1.d EXCEPT ![l] = FMul(q1.c, pn)],
      e |-> [q1.e EXCEPT ![l] = FMul(q1.s, pn)],
      V |-> q1.V,
      f |-> FAdd(f0, h),
      thrown |-> q1.thrown]])])])])])])])])])])])])])

\* Sort eigenvalues and corresponding vectors.
tql2_sort_descending(n0, d0, V0) ==
  For(0, n0 - 2, [d |-> d0, V |-> V0, swaps |-> << >>], LAMBDA i, t:
          Let([sel \in {For(i + 1, n0 - 1, [k |-> i, p |-> t.d[i]], LAMBDA j, u:
                            IF FGt(t.d[j], u.p) THEN [k |-> j, p |-> t.d[j]] ELSE u)} |->
          Let([k \in {sel.k} |->
         IF k # i
         THEN [d |-> [[t.d EXCEPT ![k] = t.d[i]] EXCEPT ![i] = sel.p],
               V |-> [j \in 0..(n0 - 1) |->
                        [[t.V[j] EXCEPT ![i] = t.V[j][k]] EXCEPT ![k] = t.V[j][i]]],
               swaps |-> Append(t.swaps, <<i, k>>)]
         ELSE t])]))
tql2_sort(n0, d0, V0) ==
  For(0, n0 - 2, [d |-> d0, V |-> V0, swaps |-> << >>], LAMBDA i, t:
          Let([sel \in {For(i + 1, n0 - 1, [k |-> i, p |-> t.d[i]], LAMBDA j, u:
                            IF FLt(t.d[j], u.p) THEN [k |-> j, p |-> t.d[j]] ELSE u)} |->
          Let([k \in {sel.k} |->
         IF k # i
         THEN [d |-> [[t.d EXCEPT ![k] = t.d[i]] EXCEPT ![i] = sel.p],
               V |-> [j \in 0..(n0 - 1) |->
                        [[t.V[j] EXCEPT ![i] = t.V[j][k]] EXCEPT ![k] = t.V[j][i]]],
               swaps |-> Append(t.swaps, <<i, k>>)]
         ELSE t])]))

(***************************************************************************)
(* orthes: nonsymmetric reduction to Hessenberg form.                      *)
(* Frame: H, ort, V.  low = 0, high = n-1.                                 *)
(***************************************************************************)
orthes_column(n0, m, s) ==
      Let([high \in {n0 - 1} |->
      \* Scale column.
      Let([scale \in {For(m, high, [v |-> Zero], LAMBDA i, t:
                          [v |-> FAdd(t.v, FAbs(s.H[i][m - 1]))]).v} |->
     IF FNe(scale, Zero)
     THEN     \* Compute Householder transformation.
              Let([s1 \in {ForDown(high, m, [H |-> s.H, ort |-> s.ort, V |-> s.V, h |-> Zero],
                               LAMBDA i, t:
                                     Let([oi \in {FDiv(t.H[i][m - 1], scale)} |->
                                    [t EXCEPT !.ort[i] = oi, !.h = FAdd(t.h, FMul(oi, oi))]]))} |->
              Let([g0 \in {FSqrt(s1.h)} |->
              Let([g \in {IF FGt(s1.ort[m], Zero) THEN FNeg(g0) ELSE g0} |->
              Let([h \in {FSub(s1.h, FMul(s1.ort[m], g))} |->
              Let([s2 \in {[s1 EXCEPT !.h = h, !.ort[m] = FSub(s1.ort[m], g)]} |->
              \* Apply Householder similarity transformation
              Let([s3 \in {For(m, n0 - 1, s2, LAMBDA j, t:
                                   Let([f0 \in {ForDown(high, m, [v |-> Zero], LAMBDA i, u:
                                                    [v |-> FAdd(u.v, FMul(t.ort[i], t.H[i][j]))]).v} |->
                                   Let([f \in {FDiv(f0, h)} |->
                                  For(m, high, t, LAMBDA i, u:
                                      [u EXCEPT !.H[i][j] = FSub(u.H[i][j], FMul(f, u.ort[i]))])])]))} |->
              Let([s4 \in {For(0, high, s3, LAMBDA i, t:
                                   Let([f0 \in {ForDown(high, m, [v |-> Zero], LAMBDA j, u:
                                                    [v |-> FAdd(u.v, FMul(t.ort[j], t.H[i][j]))]).v} |->
                                   Let([f \in {FDiv(f0, h)} |->
                                  For(m, high, t, LAMBDA j, u:
                                      [u EXCEPT !.H[i][j] = FSub(u.H[i][j], FMul(f, u.ort[j]))])])]))} |->
             [H |-> [s4.H EXCEPT ![m][m - 1] = FMul(scale, g)],
              ort |-> [s4.ort EXCEPT ![m] = FMul(scale, s4.ort[m])],
              V |-> s4.V]])])])])])])])
     ELSE s])])

\* Accumulate transformations (Algol's ortran).
orthes_accumulate(n0, m, s) ==
      Let([high \in {n0 - 1} |->
     IF FNe(s.H[m][m - 1], Zero)
     THEN     Let([s1 \in {For(m + 1, high, s, LAMBDA i, t: [t EXCEPT !.ort[i] = t.H[i][m - 1]])} |->
             For(m, high, s1, LAMBDA j, t:
                     Let([g0 \in {For(m, high, [v |-> Zero], LAMBDA i, u:
                                      [v |-> FAdd(u.v, FMul(t.ort[i], t.V[i][j]))]).v} |->
                     \* T division avoids possible underflow
                     Let([g \in {FDiv(FDiv(g0, t.ort[m]), t.H[m][m - 1])} |->
                    For(m, high, t, LAMBDA i, u:
                        [u EXCEPT !.V[i][j] = FAdd(u.V[i][j], FMul(g, u.ort[i]))])])]))])
     ELSE s])

orthes(n0, H0, ort0) ==
      Let([s1 \in {For(1, n0 - 2, [H |-> H0, ort |-> ort0, V |-> Empty],
                       LAMBDA m, t: orthes_column(n0, m, t))} |->
      Let([s2 \in {[s1 EXCEPT !.V = identity_matrix(n0)]} |->
     ForDown(n0 - 2, 1, s2, LAMBDA m, t: orthes_accumulate(n0, m, t))])])

(***************************************************************************)
(* hqr2: nonsymmetric reduction from Hessenberg to real Schur form.        *)
(* Frame: H, V, d, e and the locals nn, n, exshift, p, q, r, s, z, t, w,   *)
(* x, y, norm, iter.  low = 0, high = nn-1.                                *)
(***************************************************************************)
Min(a, b) == IF b < a THEN b ELSE a
Max(a, b) == IF a < b THEN b ELSE a

\* Store roots isolated by balanc and compute matrix norm
hqr2_norm(nn, H0) ==
  For(0, nn - 1, [v |-> Zero], LAMBDA i, t:
      For(Max(i - 1, 0), nn - 1, t, LAMBDA j, u: [v |-> FAdd(u.v, FAbs(H0[i][j]))])).v

\* Look for single small sub-diagonal element: l and the last value of s.
hqr2_small(fr) ==
  ForDown(fr.n, 1, [l |-> fr.n, s |-> fr.s, found |-> FALSE], LAMBDA k, t:
      IF t.found THEN t
      ELSE     Let([s0 \in {FAdd(FAbs(fr.H[k - 1][k - 1]), FAbs(fr.H[k][k]))} |->
               Let([s1 \in {IF FEq(s0, Zero) THEN fr.norm ELSE s0} |->
              IF FLt(FAbs(fr.H[k][k - 1]), FMul(eps, s1))
              THEN [l |-> k, s |-> s1, found |-> TRUE]
              ELSE [l |-> k - 1, s |-> s1, found |-> FALSE]])]))

\* One root found
hqr2_one_root_keeps_n(fr) ==
      Let([k \in {fr.n} |->
      Let([h \in {FAdd(fr.H[k][k], fr.exshift)} |->
     [fr EXCEPT !.H[k][k] = h, !.d[k] = h, !.e[k] = Zero, !.iter = 0,
                !.dw[k] = @ + 1, !.ew[k] = @ + 1, !.back[k] = Append(@, fr.exshift)]])])
hqr2_one_root_without_exshift(fr) ==
      Let([k \in {fr.n} |->
      Let([h \in {fr.H[k][k]} |->
     [fr EXCEPT !.H[k][k] = h, !.d[k] = h, !.e[k] = Zero, !.n = k - 1, !.iter = 0,
                !.dw[k] = @ + 1, !.ew[k] = @ + 1]])])
hqr2_one_root(fr) ==
      Let([k \in {fr.n} |->
      Let([h \in {FAdd(fr.H[k][k], fr.exshift)} |->
     [fr EXCEPT !.H[k][k] = h, !.d[k] = h, !.e[k] = Zero, !.n = k - 1, !.iter = 0,
                !.dw[k] = @ + 1, !.ew[k] = @ + 1, !.back[k] = Append(@, fr.exshift)]])])

\* z = A(i,c1); A(i,c1) = q*z + p*A(i,c2); A(i,c2) *= q; A(i,c2) -= p*z
hqr2_rotate_columns(M, i, c1, c2, p, q) ==
      Let([z \in {M[i][c1]} |->
     [M EXCEPT ![i][c1] = FAdd(FMul(q, z), FMul(p, M[i][c2])),
               ![i][c2] = FSub(FMul(M[i][c2], q), FMul(p, z))]])

\* Complex pair: x is H(n,n), p and z as computed for the 2x2 block
hqr2_complex_pair_not_conjugate(k, fr) ==
  [fr EXCEPT !.d[k - 1] = FAdd(fr.x, fr.p), !.d[k] = FAdd(fr.x, fr.p),
             !.e[k - 1] = fr.z, !.e[k] = fr.z,
             !.dw[k - 1] = @ + 1, !.dw[k] = @ + 1, !.ew[k - 1] = @ + 1, !.ew[k] = @ + 1]
hqr2_complex_pair(k, fr) ==
  [fr EXCEPT !.d[k - 1] = FAdd(fr.x, fr.p), !.d[k] = FAdd(fr.x, fr.p),
             !.e[k - 1] = fr.z, !.e[k] = FNeg(fr.z),
             !.dw[k - 1] = @ + 1, !.dw[k] = @ + 1, !.ew[k - 1] = @ + 1, !.ew[k] = @ + 1]

\* Two roots found
hqr2_two_roots(fr) ==
      Let([k \in {fr.n} |->
      Let([w \in {FMul(fr.H[k][k - 1], fr.H[k - 1][k])} |->
      Let([p0 \in {FDiv(FSub(fr.H[k - 1][k - 1], fr.H[k][k]), Two)} |->
      Let([q0 \in {FAdd(FMul(p0, p0), w)} |->
      Let([z0 \in {FSqrt(FAbs(q0))} |->
      Let([H1 \in {[fr.H EXCEPT ![k][k] = FAdd(fr.H[k][k], fr.exshift),
                                ![k - 1][k - 1] = FAdd(fr.H[k - 1][k - 1], fr.exshift)]} |->
      Let([x0 \in {H1[k][k]} |->
      Let([f1 \in {[fr EXCEPT !.w = w, !.p = p0, !.q = q0, !.z = z0, !.H = H1, !.x = x0,
                              !.back[k] = Append(@, fr.exshift),
                              !.back[k - 1] = Append(@, fr.exshift)]} |->
      Let([f2 \in {IF FGe(q0, Zero)
                   THEN \* Real pair
                            Let([z1 \in {IF FGe(p0, Zero) THEN FAdd(p0, z0) ELSE FSub(p0, z0)} |->
                            Let([dk1 \in {FAdd(x0, z1)} |->
                            Let([dk \in {IF FNe(z1, Zero) THEN FSub(x0, FDiv(w, z1)) ELSE dk1} |->
                            Let([x1 \in {H1[k][k - 1]} |->
                            Let([s1 \in {FAdd(FAbs(x1), FAbs(z1))} |->
                            Let([p1 \in {FDiv(x1, s1)} |->
                            Let([q1 \in {FDiv(z1, s1)} |->
                            Let([r1 \in {FSqrt(FAdd(FMul(p1, p1), FMul(q1, q1)))} |->
                            Let([p2 \in {FDiv(p1, r1)} |->
                            Let([q2 \in {FDiv(q1, r1)} |->
                            Let([g1 \in {[f1 EXCEPT !.z = z1, !.d[k - 1] = dk1, !.d[k] = dk,
                                                    !.e[k - 1] = Zero, !.e[k] = Zero,
                                                    \* d(n) = d(n-1); if (z != 0.0) d(n) = x - w / z;
                                                    !.dw[k - 1] = @ + 1,
                                                    !.dw[k] = @ + (IF FNe(z1, Zero) THEN 2 ELSE 1),
                                                    !.ew[k - 1] = @ + 1, !.ew[k] = @ + 1,
                                                    !.x = x1, !.s = s1, !.r = r1, !.p = p2, !.q = q2]} |->
                            \* Row modification
                            Let([g2 \in {For(k - 1, fr.nn - 1, g1, LAMBDA j, t:
                                                 Let([zj \in {t.H[k - 1][j]} |->
                                                [t EXCEPT !.z = zj,
                                                          !.H[k - 1][j] = FAdd(FMul(q2, zj), FMul(p2, t.H[k][j])),
                                                          !.H[k][j] = FSub(FMul(t.H[k][j], q2), FMul(p2, zj))]]))} |->
                            \* Column modification
                            Let([g3 \in {For(0, k, g2, LAMBDA i, t:
                                             [t EXCEPT !.z = t.H[i][k - 1],
                                                       !.H = hqr2_rotate_columns(t.H, i, k - 1, k, p2, q2)])} |->
                            \* Accumulate transformations
                           For(0, fr.nn - 1, g3, LAMBDA i, t:
                               [t EXCEPT !.z = t.V[i][k - 1],
                                         !.V = hqr2_rotate_columns(t.V, i, k - 1, k, p2, q2)])])])])])])])])])])])])])])
                   ELSE hqr2_complex_pair(k, f1)} |->
     [f2 EXCEPT !.n = k - 2, !.iter = 0]])])])])])])])])])

\* Form shift, with Wilkinson's original and MATLAB's new ad hoc shift
hqr2_shift_from_tenth_sweep(fr) ==
      Let([k \in {fr.n} |->
      Let([f1 \in {[fr EXCEPT !.x = fr.H[k][k], !.y = fr.H[k - 1][k - 1],
                              !.w = FMul(fr.H[k][k - 1], fr.H[k - 1][k])]} |->
      Let([f2 \in {IF fr.iter >= 10
                   THEN     Let([g1 \in {For(0, k, [f1 EXCEPT !.exshift = FAdd(f1.exshift, f1.x)], LAMBDA i, t:
                                             [t EXCEPT !.H[i][i] = FSub(t.H[i][i], f1.x),
                                                       !.sub[i] = Append(@, f1.x)])} |->
                            Let([s1 \in {FAdd(FAbs(g1.H[k][k - 1]), FAbs(g1.H[k - 1][k - 2]))} |->
                            Let([xy \in {FMul(FromRat(3, 4), s1)} |->
                           [g1 EXCEPT !.s = s1, !.x = xy, !.y = xy,
                                      !.w = FMul(FMul(FNeg(FromRat(7, 16)), s1), s1),
                                      !.wilkinson = @ + 1]])])])
                   ELSE f1} |->
      Let([f3 \in {IF fr.iter = 30
                   THEN     Let([half \in {FDiv(FSub(f2.y, f2.x), Two)} |->
                            Let([s1 \in {FAdd(FMul(half, half), f2.w)} |->
                           IF FGt(s1, Zero)
                           THEN     Let([s2 \in {FSqrt(s1)} |->
                                    Let([s3 \in {IF FLt(f2.y, f2.x) THEN FNeg(s2) ELSE s2} |->
                                    Let([s4 \in {FSub(f2.x, FDiv(f2.w, FAdd(FDiv(FSub(f2.y, f2.x), Two), s3)))} |->
                                    Let([g1 \in {For(0, k, f2, LAMBDA i, t:
                                                     [t EXCEPT !.H[i][i] = FSub(t.H[i][i], s4),
                                                               !.sub[i] = Append(@, s4)])} |->
                                    Let([c \in {FromRat(241, 250)} |->
                                   [g1 EXCEPT !.s = s4, !.exshift = FAdd(g1.exshift, s4),
                                              !.x = c, !.y = c, !.w = c,
                                              !.matlab = @ + 1]])])])])])
                           ELSE [f2 EXCEPT !.s = s1]])])
                   ELSE f2} |->
     [f3 EXCEPT !.iter = IF fr.iter < IterCap THEN fr.iter + 1 ELSE IterCap]])])])])
hqr2_shift(fr) ==
      Let([k \in {fr.n} |->
      Let([f1 \in {[fr EXCEPT !.x = fr.H[k][k], !.y = fr.H[k - 1][k - 1],
                              !.w = FMul(fr.H[k][k - 1], fr.H[k - 1][k])]} |->
      Let([f2 \in {IF fr.iter = 10
                   THEN     Let([g1 \in {For(0, k, [f1 EXCEPT !.exshift = FAdd(f1.exshift, f1.x)], LAMBDA i, t:
                                             [t EXCEPT !.H[i][i] = FSub(t.H[i][i], f1.x),
                                                       !.sub[i] = Append(@, f1.x)])} |->
                            Let([s1 \in {FAdd(FAbs(g1.H[k][k - 1]), FAbs(g1.H[k - 1][k - 2]))} |->
                            Let([xy \in {FMul(FromRat(3, 4), s1)} |->
                           [g1 EXCEPT !.s = s1, !.x = xy, !.y = xy,
                                      !.w = FMul(FMul(FNeg(FromRat(7, 16)), s1), s1),
                                      !.wilkinson = @ + 1]])])])
                   ELSE f1} |->
      Let([f3 \in {IF fr.iter = 30
                   THEN     Let([half \in {FDiv(FSub(f2.y, f2.x), Two)} |->
                            Let([s1 \in {FAdd(FMul(half, half), f2.w)} |->
                           IF FGt(s1, Zero)
                           THEN     Let([s2 \in {FSqrt(s1)} |->
                                    Let([s3 \in {IF FLt(f2.y, f2.x) THEN FNeg(s2) ELSE s2} |->
                                    Let([s4 \in {FSub(f2.x, FDiv(f2.w, FAdd(FDiv(FSub(f2.y, f2.x), Two), s3)))} |->
                                    Let([g1 \in {For(0, k, f2, LAMBDA i, t:
                                                     [t EXCEPT !.H[i][i] = FSub(t.H[i][i], s4),
                                                               !.sub[i] = Append(@, s4)])} |->
                                    Let([c \in {FromRat(241, 250)} |->
                                   [g1 EXCEPT !.s = s4, !.exshift = FAdd(g1.exshift, s4),
                                              !.x = c, !.y = c, !.w = c,
                                              !.matlab = @ + 1]])])])])])
                           ELSE [f2 EXCEPT !.s = s1]])])
                   ELSE f2} |->
     [f3 EXCEPT !.iter = IF fr.iter < IterCap THEN fr.iter + 1 ELSE IterCap]])])])])

\* Look for two consecutive small sub-diagonal elements
hqr2_two_small(l, fr) ==
  ForDown(fr.n - 2, l, [m |-> fr.n - 2, p |-> fr.p, q |-> fr.q, r |-> fr.r, s |-> fr.s,
                        z |-> fr.z, found |-> FALSE], LAMBDA m, t:
      IF t.found THEN t
      ELSE     Let([z \in {fr.H[m][m]} |->
               Let([r0 \in {FSub(fr.x, z)} |->
               Let([s0 \in {FSub(fr.y, z)} |->
               Let([p0 \in {FAdd(FDiv(FSub(FMul(r0, s0), fr.w), fr.H[m + 1][m]), fr.H[m][m + 1])} |->
               Let([q0 \in {FSub(FSub(FSub(fr.H[m + 1][m + 1], z), r0), s0)} |->
               Let([r1 \in {fr.H[m + 2][m + 1]} |->
               Let([s1 \in {FAdd(FAdd(FAbs(p0), FAbs(q0)), FAbs(r1))} |->
               Let([p \in {FDiv(p0, s1)} |->
               Let([q \in {FDiv(q0, s1)} |->
               Let([r \in {FDiv(r1, s1)} |->
               Let([stop \in {\/ m = l
                              \/ FLt(FMul(FAbs(fr.H[m][m - 1]), FAdd(FAbs(q), FAbs(r))),
                                     FMul(eps, FMul(FAbs(p), FAdd(FAdd(FAbs(fr.H[m - 1][m - 1]), FAbs(z)),
                                                                  FAbs(fr.H[m + 1][m + 1])))))} |->
              [m |-> IF stop THEN m ELSE m - 1, p |-> p, q |-> q, r |-> r, s |-> s1, z |-> z,
               found |-> stop]])])])])])])])])])])]))

\* The body of the double QR step for one k, from  s = sqrt(p*p + q*q + r*r)  on.
hqr2_reflect(l, m, k, fr) ==
      Let([hn \in {fr.n} |->
      Let([notlast \in {k # hn - 1} |->
      Let([s0 \in {FSqrt(FAdd(FAdd(FMul(fr.p, fr.p), FMul(fr.q, fr.q)), FMul(fr.r, fr.r)))} |->
      Let([s \in {IF FLt(fr.p, Zero) THEN FNeg(s0) ELSE s0} |->
     IF FNe(s, Zero)
     THEN     Let([H1 \in {IF k # m THEN [fr.H EXCEPT ![k][k - 1] = FMul(FNeg(s), fr.x)]
                           ELSE IF l # m THEN [fr.H EXCEPT ![k][k - 1] = FNeg(fr.H[k][k - 1])]
                           ELSE fr.H} |->
              Let([p1 \in {FAdd(fr.p, s)} |->
              Let([x \in {FDiv(p1, s)} |->
              Let([y \in {FDiv(fr.q, s)} |->
              Let([z \in {FDiv(fr.r, s)} |->
              Let([q \in {FDiv(fr.q, p1)} |->
              Let([r \in {FDiv(fr.r, p1)} |->
              Let([f1 \in {[fr EXCEPT !.s = s, !.H = H1, !.p = p1, !.x = x, !.y = y, !.z = z,
                                      !.q = q, !.r = r]} |->
              \* Row modification
              Let([f2 \in {For(k, fr.nn - 1, f1, LAMBDA j, t:
                                   Let([pa \in {FAdd(t.H[k][j], FMul(q, t.H[k + 1][j]))} |->
                                   Let([pj \in {IF notlast THEN FAdd(pa, FMul(r, t.H[k + 2][j])) ELSE pa} |->
                                   Let([t1 \in {IF notlast
                                                THEN [t EXCEPT !.H[k + 2][j] = FSub(t.H[k + 2][j], FMul(pj, z))]
                                                ELSE t} |->
                                  [t1 EXCEPT !.p = pj,
                                             !.H[k][j] = FSub(t.H[k][j], FMul(pj, x)),
                                             !.H[k + 1][j] = FSub(t.H[k + 1][j], FMul(pj, y))]])])]))} |->
              \* Column modification
              Let([f3 \in {For(0, Min(hn, k + 3), f2, LAMBDA i, t:
                                   Let([pa \in {FAdd(FMul(x, t.H[i][k]), FMul(y, t.H[i][k + 1]))} |->
                                   Let([pj \in {IF notlast THEN FAdd(pa, FMul(z, t.H[i][k + 2])) ELSE pa} |->
                                   Let([t1 \in {IF notlast
                                                THEN [t EXCEPT !.H[i][k + 2] = FSub(t.H[i][k + 2], FMul(pj, r))]
                                                ELSE t} |->
                                  [t1 EXCEPT !.p = pj,
                                             !.H[i][k] = FSub(t.H[i][k], pj),
                                             !.H[i][k + 1] = FSub(t.H[i][k + 1], FMul(pj, q))]])])]))} |->
              \* Accumulate transformations
             For(0, fr.nn - 1, f3, LAMBDA i, t:
                     Let([pa \in {FAdd(FMul(x, t.V[i][k]), FMul(y, t.V[i][k + 1]))} |->
                     Let([pj \in {IF notlast THEN FAdd(pa, FMul(z, t.V[i][k + 2])) ELSE pa} |->
                     Let([t1 \in {IF notlast
                                  THEN [t EXCEPT !.V[i][k + 2] = FSub(t.V[i][k + 2], FMul(pj, r))]
                                  ELSE t} |->
                    [t1 EXCEPT !.p = pj,
                               !.V[i][k] = FSub(t.V[i][k], pj),
                               !.V[i][k + 1] = FSub(t.V[i][k + 1], FMul(pj, q))]])])]))])])])])])])])])])])
     ELSE [fr EXCEPT !.s = s]])])])])

\* x = abs(p) + abs(q) + abs(r)  for the column k-1 of a k other than m
hqr2_column_scale(k, t) ==
      Let([p \in {t.H[k][k - 1]} |->
      Let([q \in {t.H[k + 1][k - 1]} |->
      Let([r \in {IF k # t.n - 1 THEN t.H[k + 2][k - 1] ELSE Zero} |->
     [p |-> p, q |-> q, r |-> r, x |-> FAdd(FAdd(FAbs(p), FAbs(q)), FAbs(r))]])])])

\* The body of  for (k = m; k <= n-1; ++k)
hqr2_double_column(l, m, k, t) ==
  IF k # m
  THEN     Let([c \in {hqr2_column_scale(k, t)} |->
          IF FEq(c.x, Zero)
          THEN \* continue
               [t EXCEPT !.p = c.p, !.q = c.q, !.r = c.r, !.x = c.x,
                         !.cols = Append(@, [k |-> k, zero |-> TRUE])]
          ELSE hqr2_reflect(l, m, k, [t EXCEPT !.p = FDiv(c.p, c.x), !.q = FDiv(c.q, c.x),
                                               !.r = FDiv(c.r, c.x), !.x = c.x,
                                               !.cols = Append(@, [k |-> k, zero |-> FALSE])])])
  ELSE hqr2_reflect(l, m, k, [t EXCEPT !.cols = Append(@, [k |-> k, zero |-> FALSE])])

\* Double QR step involving rows l:n and columns m:n
hqr2_double_step_ends_sweep(l, m, fr) ==
  For(m, fr.n - 1, [f |-> fr, ended |-> FALSE], LAMBDA k, t:
      IF t.ended THEN t
      ELSE [f |-> hqr2_double_column(l, m, k, t.f),
            ended |-> k # m /\ FEq(hqr2_column_scale(k, t.f).x, Zero)]).f
hqr2_double_step(l, m, fr) ==
  For(m, fr.n - 1, fr, LAMBDA k, t: hqr2_double_column(l, m, k, t))

\* No convergence yet: one pass of the outer loop up to the double QR step:
\* the shift, the start m of the bulge, and H(i,i-2) = H(i,i-3) = 0
hqr2_bulge_start(l, fr) ==
      Let([f1 \in {hqr2_shift(fr)} |->
      Let([ms \in {hqr2_two_small(l, f1)} |->
      Let([m \in {ms.m} |->
      Let([f2 \in {[f1 EXCEPT !.p = ms.p, !.q = ms.q, !.r = ms.r, !.s = ms.s, !.z = ms.z,
                              !.cols = << >>]} |->
      Let([f3 \in {For(m + 2, fr.n, f2, LAMBDA i, t:
                       IF i > m + 2
                       THEN [t EXCEPT !.H[i][i - 2] = Zero, !.H[i][i - 3] = Zero]
                       ELSE [t EXCEPT !.H[i][i - 2] = Zero])} |->
     [m |-> m, fr |-> f3]])])])])])
hqr2_iterate(l, fr) ==
      Let([b \in {hqr2_bulge_start(l, fr)} |->
     hqr2_double_step(l, b.m, b.fr)])

\* A division executed by the back-substitution: the variable it divides by
\* and the value of that variable (re + i*im for a complex division).
Den(by, re, im) == [by |-> by, re |-> re, im |-> im]

\* std::complex<T>(a, b) /= std::complex<T>(c, d)
cdiv(a, b, c, d) ==
  IF FLt(FAbs(c), FAbs(d))
  THEN     Let([ratio \in {FDiv(c, d)} |->
           Let([denom \in {FAdd(FMul(c, ratio), d)} |->
          [re |-> FDiv(FAdd(FMul(a, ratio), b), denom),
           im |-> FDiv(FSub(FMul(b, ratio), a), denom)]])])
  ELSE     Let([ratio \in {FDiv(d, c)} |->
           Let([denom \in {FAdd(FMul(d, ratio), c)} |->
          [re |-> FDiv(FAdd(FMul(b, ratio), a), denom),
           im |-> FDiv(FSub(b, FMul(a, ratio)), denom)]])])

\* Real vector: the body of  for (i = n-1; i >= 0; --i); l is fr.l
hqr2_real_row(k, i, fr) ==
      Let([w \in {FSub(fr.H[i][i], fr.p)} |->
      Let([r \in {For(fr.l, k, [v |-> Zero], LAMBDA j, t:
                      [v |-> FAdd(t.v, FMul(fr.H[i][j], fr.H[j][k]))]).v} |->
      Let([f1 \in {[fr EXCEPT !.w = w, !.r = r]} |->
     IF FLt(fr.e[i], Zero)
     THEN [f1 EXCEPT !.z = w, !.s = r]
     ELSE     Let([f2 \in {IF FEq(fr.e[i], Zero)
                           THEN IF FNe(w, Zero)
                                THEN [f1 EXCEPT !.l = i, !.H[i][k] = FDiv(FNeg(r), w),
                                                !.bden = @ \cup {Den("w", w, Zero)}]
                                ELSE [f1 EXCEPT !.l = i, !.H[i][k] = FDiv(FNeg(r), FMul(eps, fr.norm)),
                                                !.bden = @ \cup {Den("eps * norm", FMul(eps, fr.norm), Zero)}]
                           ELSE \* Solve real equations
                                    Let([x \in {fr.H[i][i + 1]} |->
                                    Let([y \in {fr.H[i + 1][i]} |->
                                    Let([dp \in {FSub(fr.d[i], fr.p)} |->
                                    Let([q \in {FAdd(FMul(dp, dp), FMul(fr.e[i], fr.e[i]))} |->
                                    Let([t \in {FDiv(FSub(FMul(x, fr.s), FMul(fr.z, r)), q)} |->
                                   [f1 EXCEPT !.l = i, !.x = x, !.y = y, !.q = q, !.t = t,
                                              !.H[i][k] = t,
                                              !.H[i + 1][k] =
                                                 IF FGt(FAbs(x), FAbs(fr.z))
                                                 THEN FDiv(FSub(FNeg(r), FMul(w, t)), x)
                                                 ELSE FDiv(FSub(FNeg(fr.s), FMul(y, t)), fr.z),
                                              !.bden = @ \cup {Den("q", q, Zero),
                                                               IF FGt(FAbs(x), FAbs(fr.z))
                                                               THEN Den("x", x, Zero)
                                                               ELSE Den("z", fr.z, Zero)}]])])])])])} |->
              \* Overflow control
              Let([t \in {FAbs(f2.H[i][k])} |->
              Let([f3 \in {[f2 EXCEPT !.t = t]} |->
             IF FGt(FMul(FMul(eps, t), t), One)
             THEN For(i, k, [f3 EXCEPT !.bden = @ \cup {Den("t", t, Zero)}],
                      LAMBDA j, u: [u EXCEPT !.H[j][k] = FDiv(u.H[j][k], t)])
             ELSE f3])])])])])])

\* Complex vector: the body of  for (i = n-2; i >= 0; --i); l is fr.l
hqr2_complex_row(k, i, fr) ==
      Let([q \in {fr.q} |->
      Let([sums \in {For(fr.l, k, [ra |-> Zero, sa |-> Zero], LAMBDA j, t:
                         [ra |-> FAdd(t.ra, FMul(fr.H[i][j], fr.H[j][k - 1])),
                          sa |-> FAdd(t.sa, FMul(fr.H[i][j], fr.H[j][k]))])} |->
      Let([ra \in {sums.ra} |->
      Let([sa \in {sums.sa} |->
      Let([w \in {FSub(fr.H[i][i], fr.p)} |->
      Let([f1 \in {[fr EXCEPT !.w = w]} |->
     IF FLt(fr.e[i], Zero)
     THEN [f1 EXCEPT !.z = w, !.r = ra, !.s = sa]
     ELSE     Let([f2 \in {IF FEq(fr.e[i], Zero)
                           THEN     Let([c \in {cdiv(FNeg(ra), FNeg(sa), w, q)} |->
                                   [f1 EXCEPT !.l = i, !.H[i][k - 1] = c.re, !.H[i][k] = c.im,
                                              !.bden = @ \cup {Den("ctmp2", w, q)}]])
                           ELSE \* Solve complex equations
                                    Let([x \in {fr.H[i][i + 1]} |->
                                    Let([y \in {fr.H[i + 1][i]} |->
                                    Let([dp \in {FSub(fr.d[i], fr.p)} |->
                                    Let([vr0 \in {FSub(FAdd(FMul(dp, dp), FMul(fr.e[i], fr.e[i])), FMul(q, q))} |->
                                    Let([vi \in {FMul(FMul(dp, Two), q)} |->
                                    Let([vr \in {IF FEq(vr0, Zero) /\ FEq(vi, Zero)
                                                 THEN FMul(FMul(eps, fr.norm),
                                                           FAdd(FAdd(FAdd(FAdd(FAbs(w), FAbs(q)), FAbs(x)),
                                                                     FAbs(y)), FAbs(fr.z)))
                                                 ELSE vr0} |->
                                    Let([c \in {cdiv(FAdd(FSub(FMul(x, fr.r), FMul(fr.z, ra)), FMul(q, sa)),
                                                     FSub(FSub(FMul(x, fr.s), FMul(fr.z, sa)), FMul(q, ra)),
                                                     vr, vi)} |->
                                    Let([c2 \in {cdiv(FSub(FNeg(fr.r), FMul(y, c.re)),
                                                      FSub(FNeg(fr.s), FMul(y, c.im)), fr.z, q)} |->
                                    Let([below \in {FGt(FAbs(x), FAdd(FAbs(fr.z), FAbs(q)))} |->
                                   [f1 EXCEPT !.l = i, !.x = x, !.y = y,
                                              !.H[i][k - 1] = c.re, !.H[i][k] = c.im,
                                              !.H[i + 1][k - 1] =
                                                 IF below
                                                 THEN FDiv(FAdd(FSub(FNeg(ra), FMul(w, c.re)), FMul(q, c.im)), x)
                                                 ELSE c2.re,
                                              !.H[i + 1][k] =
                                                 IF below
                                                 THEN FDiv(FSub(FSub(FNeg(sa), FMul(w, c.im)), FMul(q, c.re)), x)
                                                 ELSE c2.im,
                                              !.bden = @ \cup {Den("ctmp2", vr, vi),
                                                               IF below THEN Den("x", x, Zero)
                                                                        ELSE Den("ctmp2", fr.z, q)}]])])])])])])])])])} |->
              \* Overflow control
              Let([t \in {FMax(FAbs(f2.H[i][k - 1]), FAbs(f2.H[i][k]))} |->
              Let([f3 \in {[f2 EXCEPT !.t = t]} |->
             IF FGt(FMul(FMul(eps, t), t), One)
             THEN For(i, k, [f3 EXCEPT !.bden = @ \cup {Den("t", t, Zero)}], LAMBDA j, u:
                      [u EXCEPT !.H[j][k - 1] = FDiv(u.H[j][k - 1], t),
                                !.H[j][k] = FDiv(u.H[j][k], t)])
             ELSE f3])])])])])])])])])

\* The body of  for (n = nn-1; n >= 0; --n)
hqr2_vector(k, fr) ==
      Let([p \in {fr.d[k]} |->
      Let([q \in {fr.e[k]} |->
      Let([f1 \in {[fr EXCEPT !.p = p, !.q = q, !.n = k]} |->
     IF FEq(q, Zero)
     THEN \* Real vector
          ForDown(k - 1, 0, [f1 EXCEPT !.l = k, !.H[k][k] = One],
                  LAMBDA i, t: hqr2_real_row(k, i, t))
     ELSE IF FLt(q, Zero)
     THEN \* Complex vector
              Let([H0 \in {fr.H} |->
              \* Last vector component imaginary so matrix is triangular
              Let([H1 \in {IF FGt(FAbs(H0[k][k - 1]), FAbs(H0[k - 1][k]))
                           THEN [H0 EXCEPT ![k - 1][k - 1] = FDiv(q, H0[k][k - 1]),
                                           ![k - 1][k] = FDiv(FNeg(FSub(H0[k][k], p)), H0[k][k - 1])]
                           ELSE     Let([c \in {cdiv(Zero, FNeg(H0[k - 1][k]), FSub(H0[k - 1][k - 1], p), q)} |->
                                   [H0 EXCEPT ![k - 1][k - 1] = c.re, ![k - 1][k] = c.im]])} |->
              Let([H2 \in {[H1 EXCEPT ![k][k - 1] = Zero, ![k][k] = One]} |->
             ForDown(k - 2, 0, [f1 EXCEPT !.l = k - 1, !.H = H2,
                                          !.bden = @ \cup {IF FGt(FAbs(H0[k][k - 1]), FAbs(H0[k - 1][k]))
                                                           THEN Den("H(n,n-1)", H0[k][k - 1], Zero)
                                                           ELSE Den("ctmp2", FSub(H0[k - 1][k - 1], p), q)}],
                     LAMBDA i, t: hqr2_complex_row(k, i, t))])])])
     ELSE f1])])])

\* Backsubstitute to find vectors of upper triangular form
hqr2_backsubstitute(fr) ==
      Let([f1 \in {ForDown(fr.nn - 1, 0, fr, hqr2_vector)} |->
     [f1 EXCEPT !.n = -1]])

\* Back transformation to get eigenvectors of original matrix
hqr2_backtransform(fr) ==
  ForDown(fr.nn - 1, 0, fr, LAMBDA j, t:
      For(0, fr.nn - 1, t, LAMBDA i, u:
              Let([z \in {For(0, Min(j, fr.nn - 1), [v |-> Zero], LAMBDA k, a:
                              [v |-> FAdd(a.v, FMul(u.V[i][k], u.H[k][j]))]).v} |->
             [u EXCEPT !.z = z, !.V[i][j] = z]])))

(***************************************************************************)
(* The object and the position of its construction.                        *)
(***************************************************************************)
VARIABLES
  A,            \* the constructor's argument: A[i][j], i < size1, j < size2
  size1, size2, \* A.size1(), A.size2()
  argType,      \* the types of the arguments the caller constructs from
  checks,       \* BOOST_UBLAS_CHECK_ENABLE of the build
  pc,           \* position of the construction
  n, issymmetric, d, e, V, H, ort,   \* the class variables
  loc,          \* the local variables of the private method that is running
  D,            \* the matrix the caller passed to getD(Matrix&), once it was called
  calls,        \* the private methods called so far, in order
  flagWrites,   \* number of assignments to issymmetric
  symChecks,    \* number of calls of is_symmetric
  ret,          \* the public method called last and the value it returned
  steps,        \* what tred2 did: the rows it reflected, the denominators it divided by;
                \* what the sort of tql2 did: the pairs of indices it exchanged
  first         \* what an earlier construction from the same input produced, if there was one

vars == <<A, size1, size2, argType, checks, pc, n, issymmetric, d, e, V, H, ort, loc, D, calls,
          flagWrites, symChecks, ret, steps, first>>

input == <<A, size1, size2, argType, checks>>

\* loc when no private method is running.
NoLocals == [running |-> FALSE]
\* steps before tred2 ran.
NoSteps == [refl |-> {}, den |-> {}, swaps |-> << >>]
\* ret when no public method has been called.
NoCall == [op |-> "none"]
\* first when this is the first construction.
NoFirst == [constructed |-> FALSE]
\* The next number above a (a >= 0 and finite).
NextUp(a) == a + 1

\* The inputs.  Matrices of dimension MaxN have entries 0 and 1; smaller ones
\* have entries -1, 0, 1 and the number next above 1.
Entries(r, c) ==
  IF r < MaxN /\ c < MaxN
  THEN {FromInt(v) : v \in -1..1} \cup {NextUp(One)}
  ELSE {FromInt(v) : v \in 0..1}
DenseInputs(r, c) == [0..(r - 1) -> [0..(c - 1) -> Entries(r, c)]]
\* symmetric_matrix<T,lower> stores the lower triangle: A(i,j) = A(j,i) by construction.
SymmetricInputs(k) == {M \in DenseInputs(k, k) : \A i, j \in 0..(k - 1) : M[i][j] = M[j][i]}

\* The matrices of the tests (double literals, rounded to T).
FromRows(rows) ==
  [i \in 0..(Len(rows) - 1) |-> [j \in 0..(Len(rows[1]) - 1) |-> rows[i + 1][j + 1]]]
pvals ==
  LET o == One  t == FromInt(2)  h == FromInt(3)  f == FromInt(4)  x == FromInt(6)
  IN FromRows(<< <<f, o, o>>, <<o, t, h>>, <<o, h, x>> >>)
evals ==
  LET z == Zero  o == One  t == Enc(900719925, -52)   \* 2.e-7
  IN FromRows(<< <<z, o, z, z>>, <<o, z, t, z>>, <<z, FNeg(t), z, o>>, <<z, z, o, z>> >>)
eigenbug1 == [i \in 0..5 |-> [j \in 0..5 |-> IF i = j + 1 THEN One ELSE Zero]]
eigenbug2 ==
  LET z == Zero  o == One
  IN FromRows(<< <<z, z, z, z, z>>, <<z, z, z, z, o>>, <<z, z, z, o, z>>,
                 <<o, o, z, z, o>>, <<o, z, o, z, o>> >>)
\* The matrix of test special3: 7.49881e-33, 3.74939e-33 and 1.2326e-32 at
\* the precision of the model.
eigenbug3 ==
  LET z == Zero  o == One  a == Enc(156, -114)  b == Enc(156, -115)  c == Enc(128, -113)
  IN FromRows(<< <<o, z, FNeg(a), FNeg(o)>>, <<b, o, c, FNeg(b)>>,
                 <<FNeg(a), c, o, a>>, <<FNeg(o), FNeg(b), c, o>> >>)
TestInputs == {pvals, evals, eigenbug1, eigenbug2, eigenbug3}
\* A matrix whose entries are finite and whose first column overflows when
\* orthes sums it: max stands for std::numeric_limits<T>::max().
overflowing ==
  LET z == Zero  max == CodeMax - 1
  IN FromRows(<< <<z, z, z>>, <<max, z, z>>, <<max, z, z>> >>)
\* A symmetric matrix whose entries are finite and whose last row overflows
\* when tred2 sums it.
overflowing_symmetric ==
  LET z == Zero  max == CodeMax - 1
  IN FromRows(<< <<z, z, max>>, <<z, z, max>>, <<max, max, z>> >>)
\* A symmetric matrix of finite entries on which tred2 stays finite and the
\* difference d(l+1) - d(l) taken by tql2 overflows, so that p is infinite
\* when it is handed to hypot.
spread_symmetric ==
  LET max == CodeMax - 1
      half == FDiv(max, Enc(2, 0))
      eighth == FDiv(max, Enc(8, 0))
  IN FromRows(<< <<FNeg(half), eighth>>, <<eighth, max>> >>)
\* A matrix on which hqr2, at the precision of the model, sweeps more than 30
\* times before it deflates.
stagnating ==
  LET z == Zero  o == One  t == FromInt(2)  h == FromInt(3)
  IN FromRows(<< <<FNeg(o), o, z, z>>, <<t, FNeg(o), t, o>>,
                 <<h, h, FNeg(o), FNeg(o)>>, <<h, FNeg(t), FNeg(t), o>> >>)
\* A matrix that is not symmetric and whose norm is so small that eps * norm
\* underflows to zero: min stands for std::numeric_limits<T>::denorm_min().
underflowing ==
  LET z == Zero  min == Enc(1, EMinU)
  IN FromRows(<< <<z, min>>, <<FAdd(min, min), z>> >>)
\* An upper Hessenberg matrix whose entries are small multiples of
\* std::numeric_limits<T>::denorm_min(): eps * s underflows, so that the
\* whole matrix stays active, and the first reflection of the double QR step
\* leaves column 0 zero below the diagonal.
vanishing_bulge ==
  LET min == Enc(1, EMinU)
      m(v) == FMul(FromInt(v), min)
  IN FromRows(<< <<m(1), m(0), m(-2), m(-4)>>, <<m(-1), m(0), m(3), m(4)>>,
                 <<m(0), m(1), m(-4), m(-2)>>, <<m(0), m(0), m(-1), m(-3)>> >>)
\* An upper triangular matrix that is not symmetric and whose entries are so
\* small that eps * s underflows to zero in the convergence test of hqr2.
underflowing_triangular ==
  LET z == Zero  min == Enc(1, EMinU)
  IN FromRows(<< <<FNeg(min), min>>, <<z, min>> >>)
Rows(M) == Cardinality(DOMAIN M)

Init ==
  /\ \/ /\ argType \in {"Matrix", "SymmetricMatrix"}
        /\ size1 \in 1..MaxN
        /\ size2 \in 1..MaxN
        /\ argType = "SymmetricMatrix" => size1 = size2
        /\ A \in IF argType = "Matrix" THEN DenseInputs(size1, size2)
                                       ELSE SymmetricInputs(size1)
     \/ /\ argType = "Matrix"
        /\ A \in TestInputs \cup {overflowing, overflowing_symmetric, spread_symmetric, stagnating, underflowing, vanishing_bulge,
                                 underflowing_triangular}
        /\ size1 = Rows(A)
        /\ size2 = Rows(A)
     \/ \* test special3: EigenvalueDecomposition<double>(A, true)
        /\ argType = "Matrix, bool"
        /\ A = eigenbug3
        /\ size1 = Rows(A)
        /\ size2 = Rows(A)
  /\ checks \in BOOLEAN
  /\ pc = "new"
  /\ n = Indet /\ issymmetric \in BOOLEAN
  /\ d = Empty /\ e = Empty /\ V = Empty /\ H = Empty /\ ort = Empty
  /\ loc = NoLocals
  /\ D = Empty
  /\ calls = << >>
  /\ flagWrites = 0
  /\ symChecks = 0
  /\ ret = NoCall
  /\ steps = NoSteps
  /\ first = NoFirst

\* boost::numeric::ublas::is_symmetric(A): exact elementwise comparison.
is_symmetric_tolerant(M, r, c) ==
  r = c /\ \A i \in 0..(r - 1) : \A j \in i..(r - 1) : FLe(FAbs(FSub(M[i][j], M[j][i])), eps)
is_symmetric(M, r, c) ==
  r = c /\ \A i \in 0..(r - 1) : \A j \in i..(r - 1) : FEq(M[i][j], M[j][i])

\* EigenvalueDecomposition(const Matrix& A)
ConstructMatrix_skips_tred2 ==
  /\ pc = "new" /\ argType = "Matrix"
  /\ IF checks /\ size1 # size2
     THEN \* BOOST_UBLAS_CHECK raises bad_size
          /\ pc' = "failed"
          /\ UNCHANGED <<n, issymmetric, d, e, V, H, ort, flagWrites, symChecks>>
     ELSE /\ n' = size2
          /\ issymmetric' = is_symmetric(A, size1, size2)
          /\ flagWrites' = flagWrites + 1
          /\ symChecks' = symChecks + 1
          /\ d' = NewVector(size2) /\ e' = NewVector(size2)
          /\ IF issymmetric'
             THEN /\ V' = A
                  /\ UNCHANGED <<H, ort>>
                  /\ pc' = "tql2"
             ELSE /\ V' = NewMatrix(size2)
                  /\ ort' = NewVector(size2)
                  /\ IF size1 < size2
                     THEN \* H(i,j) = A(i,j) reads rows A does not have
                          /\ H' = NewMatrix(size2)
                          /\ pc' = "undefined"
                     ELSE /\ H' = [i \in 0..(size2 - 1) |-> [j \in 0..(size2 - 1) |-> A[i][j]]]
                          /\ pc' = "orthes"
  /\ UNCHANGED <<input, D, ret, loc, calls, steps, first>>

ConstructMatrix_flag_not_initialised ==
  /\ pc = "new" /\ argType = "Matrix"
  /\ IF checks /\ size1 # size2
     THEN \* BOOST_UBLAS_CHECK raises bad_size
          /\ pc' = "failed"
          /\ UNCHANGED <<n, issymmetric, d, e, V, H, ort, flagWrites, symChecks>>
     ELSE /\ n' = size2
          /\ issymmetric' = (issymmetric /\ is_symmetric(A, size1, size2))
          /\ flagWrites' = flagWrites + 1
          /\ symChecks' = symChecks + 1
          /\ d' = NewVector(size2) /\ e' = NewVector(size2)
          /\ IF issymmetric'
             THEN /\ V' = A
                  /\ UNCHANGED <<H, ort>>
                  /\ pc' = "tred2"
             ELSE /\ V' = NewMatrix(size2)
                  /\ ort' = NewVector(size2)
                  /\ IF size1 < size2
                     THEN \* H(i,j) = A(i,j) reads rows A does not have
                          /\ H' = NewMatrix(size2)
                          /\ pc' = "undefined"
                     ELSE /\ H' = [i \in 0..(size2 - 1) |-> [j \in 0..(size2 - 1) |-> A[i][j]]]
                          /\ pc' = "orthes"
  /\ UNCHANGED <<input, D, ret, loc, calls, steps, first>>
ConstructMatrix ==
  /\ pc = "new" /\ argType = "Matrix"
  /\ IF checks /\ size1 # size2
     THEN \* BOOST_UBLAS_CHECK raises bad_size
          /\ pc' = "failed"
          /\ UNCHANGED <<n, issymmetric, d, e, V, H, ort, flagWrites, symChecks>>
     ELSE /\ n' = size2
          /\ issymmetric' = is_symmetric(A, size1, size2)
          /\ flagWrites' = flagWrites + 1
          /\ symChecks' = symChecks + 1
          /\ d' = NewVector(size2) /\ e' = NewVector(size2)
          /\ IF issymmetric'
             THEN /\ V' = A
                  /\ UNCHANGED <<H, ort>>
                  /\ pc' = "tred2"
             ELSE /\ V' = NewMatrix(size2)
                  /\ ort' = NewVector(size2)
                  /\ IF size1 < size2
                     THEN \* H(i,j) = A(i,j) reads rows A does not have
                          /\ H' = NewMatrix(size2)
                          /\ pc' = "undefined"
                     ELSE /\ H' = [i \in 0..(size2 - 1) |-> [j \in 0..(size2 - 1) |-> A[i][j]]]
                          /\ pc' = "orthes"
  /\ UNCHANGED <<input, D, ret, loc, calls, steps, first>>

\* The constructors the class declares.
Declared == {"Matrix", "SymmetricMatrix"}
\* A call with arguments that no declared constructor takes is ill-formed:
\* no instance comes to exist.
ConstructNoMatch ==
  /\ pc = "new" /\ argType \notin Declared
  /\ pc' = "ill_formed"
  /\ UNCHANGED <<input, n, issymmetric, d, e, V, H, ort, loc, D, calls, flagWrites, symChecks,
                 ret, steps, first>>

\* EigenvalueDecomposition(const SymmetricMatrix& A)
ConstructSymmetric_sizes_H ==
  /\ pc = "new" /\ argType = "SymmetricMatrix"
  /\ n' = size2
  /\ d' = NewVector(size2) /\ e' = NewVector(size2)
  /\ issymmetric' = TRUE
  /\ flagWrites' = flagWrites + 1
  /\ V' = A
  /\ pc' = "tred2"
  /\ H' = NewMatrix(size2) /\ ort' = NewVector(size2)
  /\ UNCHANGED <<input, D, ret, loc, calls, symChecks, steps, first>>

ConstructSymmetric ==
  /\ pc = "new" /\ argType = "SymmetricMatrix"
  /\ n' = size2
  /\ d' = NewVector(size2) /\ e' = NewVector(size2)
  /\ issymmetric' = TRUE
  /\ flagWrites' = flagWrites + 1
  /\ V' = A
  /\ pc' = "tred2"
  /\ UNCHANGED <<input, D, ret, H, ort, loc, calls, symChecks, steps, first>>

Tred2 ==
  /\ pc = "tred2"
  /\ (\E s \in {tred2(n, d, e, V)} :
        d' = s.d /\ e' = s.e /\ V' = s.V /\ steps' = [refl |-> s.refl, den |-> s.den, swaps |-> << >>])
  /\ calls' = Append(calls, "tred2")
  /\ pc' = "tql2"
  /\ UNCHANGED <<input, D, ret, n, issymmetric, H, ort, loc, flagWrites, symChecks, first>>

Tql2Begin ==
  /\ pc = "tql2"
  /\ e' = tql2_shift(n, e)
  /\ loc' = [f |-> Zero, tst1 |-> Zero, l |-> 0, m |-> 0, iter |-> 0]
  /\ calls' = Append(calls, "tql2")
  /\ pc' = "tql2_find"
  /\ UNCHANGED <<input, D, ret, n, issymmetric, d, V, H, ort, flagWrites, symChecks, steps, first>>

\* d(l) += f;  e(l) = 0.0;
tql2_accept_keeps_e(l, d0, e0, f) ==
  [d |-> [d0 EXCEPT ![l] = FAdd(d0[l], f)], e |-> e0]
tql2_accept(l, d0, e0, f) ==
  [d |-> [d0 EXCEPT ![l] = FAdd(d0[l], f)], e |-> [e0 EXCEPT ![l] = Zero]]

\* for (l = 0; l < n; ++l): up to the test  if (m > l)
Tql2Find ==
  /\ pc = "tql2_find" /\ loc.l < n
  /\ (\E l \in {loc.l} :
     (\E tst1 \in {FMax(loc.tst1, FAdd(FAbs(d[l]), FAbs(e[l])))} :
     (\E m \in {tql2_find(n, e, l, tst1)} :
        IF m > l
        THEN /\ loc' = [loc EXCEPT !.tst1 = tst1, !.m = m, !.iter = 0]
             /\ pc' = IF m < n THEN "tql2_iter" ELSE "undefined"   \* d(n) is read
             /\ UNCHANGED <<d, e>>
        ELSE /\ (\E a \in {tql2_accept(l, d, e, loc.f)} : d' = a.d /\ e' = a.e)
             /\ loc' = [loc EXCEPT !.tst1 = tst1, !.m = m, !.l = l + 1]
             /\ pc' = "tql2_find")))
  /\ UNCHANGED <<input, D, ret, n, issymmetric, V, H, ort, calls, flagWrites, symChecks, steps, first>>

\* one pass of the do-while loop, and what follows it when the loop exits
Tql2Iterate ==
  /\ pc = "tql2_iter"
  /\ (\E l \in {loc.l} :
     (\E s \in {tql2_iterate(n, l, loc.m, d, e, V, loc.f)} :
     (\E it \in {IF loc.iter < IterCap THEN loc.iter + 1 ELSE IterCap} :
        IF s.thrown
        THEN \* std::overflow_error leaves the constructor
             /\ pc' = "overflow_error"
             /\ UNCHANGED <<d, e, V, loc>>
        ELSE /\ V' = s.V
             /\ IF FGt(FAbs(s.e[l]), FMul(eps, loc.tst1))
                THEN /\ d' = s.d /\ e' = s.e
                     /\ loc' = [loc EXCEPT !.f = s.f, !.iter = it]
                     /\ pc' = "tql2_iter"
                ELSE /\ (\E a \in {tql2_accept(l, s.d, s.e, s.f)} : d' = a.d /\ e' = a.e)
                     /\ loc' = [loc EXCEPT !.f = s.f, !.iter = it, !.l = l + 1]
                     /\ pc' = "tql2_find")))
  /\ UNCHANGED <<input, D, ret, n, issymmetric, H, ort, calls, flagWrites, symChecks, steps, first>>

Tql2Sort_leaves_V ==
  /\ pc = "tql2_find" /\ loc.l = n
  /\ (\E s \in {tql2_sort(n, d, V)} :
        d' = s.d /\ V' = V /\ steps' = [steps EXCEPT !.swaps = s.swaps])
  /\ loc' = NoLocals
  /\ pc' = "done"
  /\ UNCHANGED <<input, D, ret, n, issymmetric, e, H, ort, calls, flagWrites, symChecks, first>>
Tql2Sort ==
  /\ pc = "tql2_find" /\ loc.l = n
  /\ (\E s \in {tql2_sort(n, d, V)} :
        d' = s.d /\ V' = s.V /\ steps' = [steps EXCEPT !.swaps = s.swaps])
  /\ loc' = NoLocals
  /\ pc' = "done"
  /\ UNCHANGED <<input, D, ret, n, issymmetric, e, H, ort, calls, flagWrites, symChecks, first>>

Orthes_frees_ort ==
  /\ pc = "orthes"
  /\ (\E s \in {orthes(n, H, ort)} :
        H' = s.H /\ ort' = Empty /\ V' = s.V)
  /\ calls' = Append(calls, "orthes")
  /\ pc' = "hqr2"
  /\ UNCHANGED <<input, D, ret, n, issymmetric, d, e, loc, flagWrites, symChecks, steps, first>>
Orthes ==
  /\ pc = "orthes"
  /\ (\E s \in {orthes(n, H, ort)} :
        H' = s.H /\ ort' = s.ort /\ V' = s.V)
  /\ calls' = Append(calls, "orthes")
  /\ pc' = "hqr2"
  /\ UNCHANGED <<input, D, ret, n, issymmetric, d, e, loc, flagWrites, symChecks, steps, first>>

\* The frame of hqr2: the class variables it assigns and its local variables,
\* dw[i], ew[i]: how many assignments to d(i) and to e(i) it has executed,
\* how often it has applied Wilkinson's and MATLAB's ad hoc shift,
\* sub[i]: the amounts it has subtracted from H(i,i) as exceptional shifts,
\* back[i]: the amounts it has added back to H(i,i),
\* cols: the columns k its last double QR step went through, and for each
\* whether the column scale x was zero, and
\* bden: the divisions its back-substitution has executed.
Frame == [H |-> H, V |-> V, d |-> d, e |-> e, l |-> 0, dw |-> loc.dw, ew |-> loc.ew,
          bden |-> loc.bden, sub |-> loc.sub, back |-> loc.back, cols |-> loc.cols,
          wilkinson |-> loc.wilkinson, matlab |-> loc.matlab,
          nn |-> loc.nn, n |-> loc.n, exshift |-> loc.exshift, norm |-> loc.norm,
          iter |-> loc.iter, p |-> loc.p, q |-> loc.q, r |-> loc.r, s |-> loc.s,
          z |-> loc.z, t |-> loc.t, w |-> loc.w, x |-> loc.x, y |-> loc.y]
Locals(fr) == [nn |-> fr.nn, n |-> fr.n, exshift |-> fr.exshift, norm |-> fr.norm,
               iter |-> fr.iter, p |-> fr.p, q |-> fr.q, r |-> fr.r, s |-> fr.s,
               z |-> fr.z, t |-> fr.t, w |-> fr.w, x |-> fr.x, y |-> fr.y,
               dw |-> fr.dw, ew |-> fr.ew, wilkinson |-> fr.wilkinson, matlab |-> fr.matlab,
               bden |-> fr.bden, sub |-> fr.sub, back |-> fr.back, cols |-> fr.cols]
Store(fr) ==
  /\ H' = fr.H /\ V' = fr.V /\ d' = fr.d /\ e' = fr.e
  /\ loc' = Locals(fr)

\* Initialize; compute matrix norm
Hqr2Begin ==
  /\ pc = "hqr2"
  /\ loc' = [nn |-> n, n |-> n - 1, exshift |-> Zero, norm |-> hqr2_norm(n, H), iter |-> 0,
             p |-> Zero, q |-> Zero, r |-> Zero, s |-> Zero, z |-> Zero,
             t |-> Indet, w |-> Indet, x |-> Indet, y |-> Indet,
             dw |-> [i \in 0..(n - 1) |-> 0], ew |-> [i \in 0..(n - 1) |-> 0],
             wilkinson |-> 0, matlab |-> 0, bden |-> {}, cols |-> << >>,
             sub |-> [i \in 0..(n - 1) |-> << >>], back |-> [i \in 0..(n - 1) |-> << >>]]
  /\ calls' = Append(calls, "hqr2")
  /\ pc' = "hqr2_loop"
  /\ UNCHANGED <<input, D, ret, n, issymmetric, d, e, V, H, ort, flagWrites, symChecks, steps, first>>

\* One pass of  while (n >= low)  in each of its three cases.
Hqr2OneRoot ==
  /\ pc = "hqr2_loop" /\ loc.n >= 0
  /\ (\E sm \in {hqr2_small(Frame)} :
        /\ sm.l = loc.n
        /\ Store(hqr2_one_root([Frame EXCEPT !.s = sm.s])))
  /\ UNCHANGED <<input, D, ret, pc, n, issymmetric, ort, calls, flagWrites, symChecks, steps, first>>

Hqr2TwoRoots ==
  /\ pc = "hqr2_loop" /\ loc.n >= 0
  /\ (\E sm \in {hqr2_small(Frame)} :
        /\ sm.l = loc.n - 1
        /\ Store(hqr2_two_roots([Frame EXCEPT !.s = sm.s])))
  /\ UNCHANGED <<input, D, ret, pc, n, issymmetric, ort, calls, flagWrites, symChecks, steps, first>>

Hqr2Iterate ==
  /\ pc = "hqr2_loop" /\ loc.n >= 0
  /\ (\E sm \in {hqr2_small(Frame)} :
        /\ sm.l < loc.n - 1
        /\ Store(hqr2_iterate(sm.l, [Frame EXCEPT !.s = sm.s])))
  /\ UNCHANGED <<input, D, ret, pc, n, issymmetric, ort, calls, flagWrites, symChecks, steps, first>>

Hqr2BackSubstitute ==
  /\ pc = "hqr2_loop" /\ loc.n < 0
  /\ IF FEq(loc.norm, Zero)
     THEN /\ pc' = "done"
          /\ loc' = NoLocals
          /\ UNCHANGED <<H, V, d, e>>
     ELSE /\ Store(hqr2_backsubstitute(Frame))
          /\ pc' = "hqr2_back"
  /\ UNCHANGED <<input, D, ret, n, issymmetric, ort, calls, flagWrites, symChecks, steps, first>>

Hqr2BackTransform_negates_e ==
  /\ pc = "hqr2_back"
  /\ (\E fr \in {hqr2_backtransform(Frame)} :
        H' = fr.H /\ V' = fr.V /\ d' = fr.d /\ e' = [i \in DOMAIN fr.e |-> FNeg(fr.e[i])])
  /\ loc' = NoLocals
  /\ pc' = "done"
  /\ UNCHANGED <<input, D, ret, n, issymmetric, ort, calls, flagWrites, symChecks, steps, first>>
Hqr2BackTransform ==
  /\ pc = "hqr2_back"
  /\ (\E fr \in {hqr2_backtransform(Frame)} :
        H' = fr.H /\ V' = fr.V /\ d' = fr.d /\ e' = fr.e)
  /\ loc' = NoLocals
  /\ pc' = "done"
  /\ UNCHANGED <<input, D, ret, n, issymmetric, ort, calls, flagWrites, symChecks, steps, first>>

(***************************************************************************)
(* The public methods.                                                     *)
(***************************************************************************)
isSymmetric == issymmetric
getV == V
getRealEigenvalues == d
getImagEigenvalues == e

\* getD(Matrix& D): D.resize(n,n,false); D.clear(); then one pass over i.
\* ok is false when a write falls outside the n-by-n matrix.
getD_transposed(n0, d0, e0) ==
      Let([r \in {For(0, n0 - 1, [D |-> [i \in 0..(n0 - 1) |-> [j \in 0..(n0 - 1) |-> Zero]], ok |-> TRUE],
                      LAMBDA i, t:
                            Let([t1 \in {[t EXCEPT !.D[i][i] = d0[i]]} |->
                           IF FGt(e0[i], Zero)
                           THEN IF i + 1 < n0 THEN [t1 EXCEPT !.D[i + 1][i] = e0[i]]
                                              ELSE [t1 EXCEPT !.ok = FALSE]
                           ELSE IF FLt(e0[i], Zero)
                           THEN IF i - 1 >= 0 THEN [t1 EXCEPT !.D[i - 1][i] = e0[i]]
                                              ELSE [t1 EXCEPT !.ok = FALSE]
                           ELSE t1]))} |->
     r])
getD(n0, d0, e0) ==
      Let([r \in {For(0, n0 - 1, [D |-> [i \in 0..(n0 - 1) |-> [j \in 0..(n0 - 1) |-> Zero]], ok |-> TRUE],
                      LAMBDA i, t:
                            Let([t1 \in {[t EXCEPT !.D[i][i] = d0[i]]} |->
                           IF FGt(e0[i], Zero)
                           THEN IF i + 1 < n0 THEN [t1 EXCEPT !.D[i][i + 1] = e0[i]]
                                              ELSE [t1 EXCEPT !.ok = FALSE]
                           ELSE IF FLt(e0[i], Zero)
                           THEN IF i - 1 >= 0 THEN [t1 EXCEPT !.D[i][i - 1] = e0[i]]
                                              ELSE [t1 EXCEPT !.ok = FALSE]
                           ELSE t1]))} |->
     r])

GetD_consumes_e ==
  /\ pc = "done"
  /\ (\E r \in {getD(n, d, e)} :
        IF r.ok THEN D' = r.D /\ pc' = pc
                ELSE D' = D /\ pc' = "undefined")
  /\ e' = [i \in 0..(n - 1) |-> Zero]
  /\ UNCHANGED <<input, n, issymmetric, d, V, H, ort, loc, calls, flagWrites, symChecks, ret, steps, first>>
GetD ==
  /\ pc = "done"
  /\ (\E r \in {getD(n, d, e)} :
        IF r.ok THEN D' = r.D /\ pc' = pc
                ELSE D' = D /\ pc' = "undefined")
  /\ UNCHANGED <<input, n, issymmetric, d, e, V, H, ort, loc, calls, flagWrites, symChecks, ret, steps, first>>

\* The const methods that return a value: a call hands the value to the
\* caller, here in ret.

\* bool isSymmetric() const
CallIsSymmetric ==
  /\ pc = "done"
  /\ ret' = [op |-> "isSymmetric", val |-> isSymmetric]
  /\ UNCHANGED <<input, pc, n, issymmetric, d, e, V, H, ort, loc, D, calls, flagWrites, symChecks, steps, first>>

\* const Matrix& getV () const
CallGetV ==
  /\ pc = "done"
  /\ ret' = [op |-> "getV", val |-> getV]
  /\ UNCHANGED <<input, pc, n, issymmetric, d, e, V, H, ort, loc, D, calls, flagWrites, symChecks, steps, first>>

\* const Vector& getRealEigenvalues () const
CallGetRealEigenvalues ==
  /\ pc = "done"
  /\ ret' = [op |-> "getRealEigenvalues", val |-> getRealEigenvalues]
  /\ UNCHANGED <<input, pc, n, issymmetric, d, e, V, H, ort, loc, D, calls, flagWrites, symChecks, steps, first>>

\* const Vector& getImagEigenvalues () const
CallGetImagEigenvalues ==
  /\ pc = "done"
  /\ ret' = [op |-> "getImagEigenvalues", val |-> getImagEigenvalues]
  /\ UNCHANGED <<input, pc, n, issymmetric, d, e, V, H, ort, loc, D, calls, flagWrites, symChecks, steps, first>>

\* const Matrix getD() const: Matrix D; getD(D); return D;
CallGetD ==
  /\ pc = "done"
  /\ (\E r \in {getD(n, d, e)} :
        IF r.ok THEN ret' = [op |-> "getD", val |-> r.D] /\ pc' = pc
                ELSE ret' = ret /\ pc' = "undefined")
  /\ UNCHANGED <<input, n, issymmetric, d, e, V, H, ort, loc, D, calls, flagWrites, symChecks, steps, first>>

Next ==
  \/ ConstructMatrix \/ ConstructSymmetric \/ ConstructNoMatch
  \/ Tred2 \/ Tql2Begin \/ Tql2Find \/ Tql2Iterate \/ Tql2Sort
  \/ Orthes \/ Hqr2Begin \/ Hqr2OneRoot \/ Hqr2TwoRoots \/ Hqr2Iterate
  \/ Hqr2BackSubstitute \/ Hqr2BackTransform
  \/ GetD \/ CallGetD
  \/ CallIsSymmetric \/ CallGetV \/ CallGetRealEigenvalues \/ CallGetImagEigenvalues
Spec == Init /\ [][Next]_vars

\* A caller constructs a second decomposition from the same matrix, as the
\* tests do: a new object, its members not yet assigned.
ConstructAgain ==
  /\ pc = "done" /\ ~first.constructed
  /\ first' = [constructed |-> TRUE, issymmetric |-> issymmetric, d |-> d, e |-> e, V |-> V]
  /\ pc' = "new"
  /\ n' = Indet /\ issymmetric' \in BOOLEAN
  /\ d' = Empty /\ e' = Empty /\ V' = Empty /\ H' = Empty /\ ort' = Empty
  /\ loc' = NoLocals /\ D' = Empty /\ ret' = NoCall
  /\ calls' = << >> /\ flagWrites' = 0 /\ symChecks' = 0 /\ steps' = NoSteps
  /\ UNCHANGED input

NextTwice == Next \/ ConstructAgain
SpecTwice == Init /\ [][NextTwice]_vars

(***************************************************************************)
(* Properties.                                                             *)
(***************************************************************************)
IsPrefix(s, t) == Len(s) <= Len(t) /\ \A i \in 1..Len(s) : s[i] = t[i]
\* The pipeline the constructor runs for a value of the symmetry flag.
Pipeline(flag) == IF flag THEN <<"tred2", "tql2">> ELSE <<"orthes", "hqr2">>

\* C2: after construction from a general dense square matrix A, isSymmetric()
\* returns true exactly when A(i,j) = A(j,i) for every pair i, j, the entries
\* being compared exactly; one differing pair makes it false.
SymmetryFlagIsExact ==
  (pc = "done" /\ argType = "Matrix" /\ size1 = size2) =>
     (isSymmetric <=> \A i, j \in 0..(size1 - 1) : A[i][j] = A[j][i])
\* A constructed instance whose input differs from its transpose only in one
\* pair of entries, 1 against the next number above 1.
SymmetryFlagIsExact_Witness ==
  /\ pc = "done" /\ argType = "Matrix" /\ size1 = size2 /\ ~isSymmetric
  /\ \E i, j \in 0..(size1 - 1) :
        /\ A[i][j] = One /\ A[j][i] = NextUp(One)
        /\ \A k, m \in 0..(size1 - 1) : {k, m} # {i, j} => A[k][m] = A[m][k]

NonSquareIsRejected ==
  (size1 # size2 /\ pc # "new") =>
     /\ pc = "failed"
     /\ n = Indet /\ flagWrites = 0
     /\ d = Empty /\ e = Empty /\ V = Empty /\ H = Empty /\ ort = Empty
     /\ calls = << >>

\* C5: on the symmetric path the real eigenvalues are in ascending order
\* after construction: d[i] <= d[i+1] for 0 <= i < n-1.
SymmetricEigenvaluesAscend ==
  (pc = "done" /\ issymmetric) =>
     \A i \in 0..(n - 2) : FLe(getRealEigenvalues[i], getRealEigenvalues[i + 1])
SymmetricEigenvaluesAscend_Witness ==
  /\ pc = "done" /\ issymmetric /\ n = MaxN
  /\ \A i \in 0..(n - 2) : FLt(d[i], d[i + 1])

\* C6: on the general path every nonzero imaginary part belongs to an
\* adjacent conjugate pair, the positive one first: Im[i] > 0 implies i < n-1,
\* Re[i+1] = Re[i] and Im[i+1] = -Im[i]; Im[i] < 0 implies i > 0,
\* Re[i-1] = Re[i] and Im[i-1] = -Im[i] > 0.
ConjugatePairsAdjacent ==
  (pc = "done" /\ ~issymmetric) =>
     \A i \in 0..(n - 1) :
        /\ FGt(e[i], Zero) =>
              (i < n - 1 /\ FEq(d[i + 1], d[i]) /\ FEq(e[i + 1], FNeg(e[i])))
        /\ FLt(e[i], Zero) =>
              (i > 0 /\ FEq(d[i - 1], d[i]) /\ FEq(e[i - 1], FNeg(e[i])) /\ FGt(e[i - 1], Zero))
ConjugatePairsAdjacent_Witness ==
  /\ pc = "done" /\ ~issymmetric /\ size1 = size2
  /\ \E i \in 0..(n - 1) : FGt(e[i], Zero)

\* C7: getD() returns the n-by-n matrix with D[i,i] = d[i], D[i,i+1] = e[i]
\* where e[i] > 0, D[i,i-1] = e[i] where e[i] < 0, and zero everywhere else.
DIsBuiltFromDAndE ==
  D # Empty =>
     /\ DOMAIN D = 0..(n - 1)
     /\ \A i \in 0..(n - 1) :
           /\ DOMAIN D[i] = 0..(n - 1)
           /\ \A j \in 0..(n - 1) :
                 D[i][j] = IF j = i THEN d[i]
                           ELSE IF j = i + 1 /\ FGt(e[i], Zero) THEN e[i]
                           ELSE IF j = i - 1 /\ FLt(e[i], Zero) THEN e[i]
                           ELSE Zero
\* getD() was called on an instance that holds a complex pair.
DIsBuiltFromDAndE_Witness ==
  /\ D # Empty
  /\ \E i \in 0..(n - 2) :
        /\ FGt(e[i], Zero) /\ D[i][i + 1] = e[i]
        /\ FLt(e[i + 1], Zero) /\ D[i + 1][i] = e[i + 1]

\* C8: on the symmetric path every imaginary part is exactly zero after
\* construction, and getD() is a diagonal matrix.
SymmetricImaginaryPartsZero ==
  /\ (pc = "done" /\ issymmetric) => \A i \in 0..(n - 1) : getImagEigenvalues[i] = Zero
  /\ (D # Empty /\ issymmetric) =>
        \A i, j \in 0..(n - 1) : i # j => D[i][j] = Zero
\* getD() was called on the decomposition of a symmetric matrix that is not diagonal.
SymmetricImaginaryPartsZero_Witness ==
  /\ pc = "done" /\ issymmetric /\ D # Empty /\ n = MaxN
  /\ \A i, j \in 0..(n - 1) : i # j => A[i][j] # Zero

\* C9: construction from the symmetric matrix type performs no symmetry
\* check, sets the flag to true and runs the symmetric pipeline (V := A,
\* tred2, tql2); H and ort are never sized or written.
SymmetricTypeSkipsClassification ==
  argType = "SymmetricMatrix" =>
     /\ symChecks = 0
     /\ H = Empty /\ ort = Empty
     /\ pc # "new" => (issymmetric = TRUE /\ flagWrites = 1)
     /\ pc = "tred2" => V = A
     /\ IsPrefix(calls, <<"tred2", "tql2">>)
     /\ pc = "done" => calls = <<"tred2", "tql2">>
SymmetricTypeSkipsClassification_Witness ==
  /\ argType = "SymmetricMatrix" /\ pc = "done" /\ n = MaxN
  /\ calls = <<"tred2", "tql2">>
  /\ \E i, j \in 0..(n - 1) : i # j /\ A[i][j] # Zero

\* The construction is running: the constructor has neither returned nor failed.
Running == pc \notin {"done", "failed", "undefined", "ill_formed", "overflow_error"}
\* A measure of the work a running construction has left: first the steps of
\* the pipeline, then the indices l of tql2 (the rows 0..n of hqr2) still to
\* be dealt with, then the passes left before the counter iter stops counting.
Measure ==
  Let([K \in {IterCap + 1} |->
     CASE pc = "new" -> (size2 + 1) * K + 4
       [] pc \in {"tred2", "orthes"} -> (size2 + 1) * K + 3
       [] pc \in {"tql2", "hqr2"} -> (size2 + 1) * K + 2
       [] pc = "tql2_find" -> (n - loc.l + 1) * K + 1
       [] pc = "tql2_iter" -> (n - loc.l + 1) * K - loc.iter
       [] pc = "hqr2_loop" -> (loc.n + 2) * K - loc.iter + 1
       [] pc = "hqr2_back" -> 1
       [] OTHER -> 0])

\* A pass of a loop that leaves every variable of the program as it found
\* it (the counter iter apart, once it has stopped counting): the loop
\* repeats that pass forever.
Stuck ==
  \/ /\ pc = "hqr2_loop" /\ loc.n >= 0 /\ loc.iter = IterCap
     /\ (\E sm \in {hqr2_small(Frame)} :
           /\ sm.l < loc.n - 1
           /\ (\E fr \in {hqr2_iterate(sm.l, [Frame EXCEPT !.s = sm.s])} :
                 fr.H = H /\ fr.V = V /\ fr.d = d /\ fr.e = e /\ Locals(fr) = loc))
  \/ /\ pc = "tql2_iter" /\ loc.iter = IterCap
     /\ (\E s \in {tql2_iterate(n, loc.l, loc.m, d, e, V, loc.f)} :
           /\ ~s.thrown
           /\ FGt(FAbs(s.e[loc.l]), FMul(eps, loc.tst1))
           /\ s.d = d /\ s.e = e /\ s.V = V /\ s.f = loc.f)

\* C10: every construction terminates.  No loop comes to repeat one pass
\* forever, and every step of a running construction strictly decreases
\* Measure, which is never negative: each QL loop of tql2 exits (the step
\* that leaves it moves on to the next l), the outer loop of hqr2 comes to
\* an empty active range (n < low), and the constructor returns, for every
\* square input, the matrix of test special2 included.
ConstructionTerminates ==
  /\ [](~Stuck)
  /\ [](Measure >= 0)
  /\ [][Running => Measure' < Measure]_vars

\* The value the public method op returns from the object as it is.
Returned(op) ==
  CASE op = "isSymmetric" -> issymmetric
    [] op = "getV" -> V
    [] op = "getRealEigenvalues" -> d
    [] op = "getImagEigenvalues" -> e
    [] op = "getD" -> getD(n, d, e).D

\* C11: after construction completes no public operation (isSymmetric, getV,
\* getRealEigenvalues, getImagEigenvalues, either getD) changes n, the
\* symmetry flag, d, e or V, and the value a call returned is the value
\* the object holds: every call of one accessor returns the same value.
AccessorsLeaveObjectUnchanged ==
  /\ [][pc = "done" => (n' = n /\ issymmetric' = issymmetric /\ d' = d /\ e' = e /\ V' = V)]_vars
  /\ []((pc = "done" /\ ret # NoCall) => ret.val = Returned(ret.op))
  /\ []((pc = "done" /\ D # Empty) => D = Returned("getD"))
AccessorsLeaveObjectUnchanged_Witness ==
  /\ pc = "done" /\ n = MaxN /\ ~issymmetric
  /\ D # Empty /\ ret # NoCall /\ ret.op = "getImagEigenvalues"
  /\ \E i \in 0..(n - 1) : FGt(ret.val[i], Zero)

\* A square matrix whose entries off the diagonal are all zero.
IsDiagonal(M, r, c) ==
  r = c /\ \A i, j \in 0..(r - 1) : i # j => M[i][j] = Zero
\* The permutations of 0..k-1, as functions.
Perms(k) == {p \in [0..(k - 1) -> 0..(k - 1)] : \A i, j \in 0..(k - 1) : p[i] = p[j] => i = j}

\* C12: for the n-by-n identity matrix the decomposition reports symmetric,
\* every real eigenvalue is 1, every imaginary part is 0, and V and getD()
\* equal the identity.  For any diagonal input tred2 forms no reflection
\* (every row takes the zero-scale branch), no QL step runs, the real
\* eigenvalues are the diagonal entries in ascending order, and V is the
\* permutation matrix that maps each sorted position to the original index
\* of its entry.
DiagonalInputIsSorted ==
  IsDiagonal(A, size1, size2) =>
     /\ pc # "new" => issymmetric
     /\ pc \notin {"hqr2", "hqr2_loop", "hqr2_back", "orthes", "tql2_iter", "undefined"}
     /\ steps.refl = {} /\ steps.den = {}
     /\ pc = "done" =>
           /\ \A i \in 0..(n - 1) : e[i] = Zero
           /\ \A i \in 0..(n - 2) : FLe(d[i], d[i + 1])
           /\ \E p \in Perms(n) :
                 \A j \in 0..(n - 1) :
                    /\ d[j] = A[p[j]][p[j]]
                    /\ \A i \in 0..(n - 1) : V[i][j] = IF i = p[j] THEN One ELSE Zero
           /\ A = identity_matrix(n) =>
                 /\ \A i \in 0..(n - 1) : d[i] = One
                 /\ V = identity_matrix(n)
                 /\ getD(n, d, e) = [D |-> identity_matrix(n), ok |-> TRUE]
DiagonalInputIsSorted_Witness ==
  /\ IsDiagonal(A, size1, size2) /\ pc = "done" /\ n = MaxN
  /\ A # identity_matrix(n) /\ V # identity_matrix(n)
  /\ D = getD(n, d, e).D

\* prod(M, trans(M)) in the arithmetic of T: entry (i, j) sums M(i,k) * M(j,k) over k.
ProdTrans(M, k) ==
  [i \in 0..(k - 1) |-> [j \in 0..(k - 1) |->
     For(0, k - 1, [v |-> Zero], LAMBDA c, a: [v |-> FAdd(a.v, FMul(M[i][c], M[j][c]))]).v]]

\* C13: on the symmetric path the eigenvector matrix is orthogonal after
\* construction: V multiplied by its transpose equals the identity matrix.
SymmetricVIsOrthogonal ==
  (pc = "done" /\ issymmetric) => ProdTrans(V, n) = identity_matrix(n)

\* v.size() == k; M.size1() == k and M.size2() == k.
HasLength(v, k) == DOMAIN v = 0..(k - 1)
IsSquareOf(M, k) == DOMAIN M = 0..(k - 1) /\ \A i \in 0..(k - 1) : DOMAIN M[i] = 0..(k - 1)

\* C14 as stated: in every constructed instance n is the side length of the
\* input, V is n-by-n, d and e have length n, H is n-by-n and ort has length n,
\* on the symmetric and on the general path alike.
AllBuffersHaveDimensionN ==
  pc = "done" =>
    /\ n = size1 /\ n = size2
    /\ IsSquareOf(V, n) /\ HasLength(d, n) /\ HasLength(e, n)
    /\ IsSquareOf(H, n) /\ HasLength(ort, n)

\* C14, amended: in every constructed instance n is the column count of the
\* input, V is n-by-n and d and e have length n; H is n-by-n and ort has
\* length n on the general path only, and on the symmetric path H and ort are
\* never resized and stay empty.
BuffersHaveDimensionNOnTheirPath ==
  pc = "done" =>
    /\ n = size2
    /\ IsSquareOf(V, n) /\ HasLength(d, n) /\ HasLength(e, n)
    /\ IF issymmetric
       THEN H = Empty /\ ort = Empty /\ size1 = size2
       ELSE IsSquareOf(H, n) /\ HasLength(ort, n)
BuffersHaveDimensionNOnTheirPath_Witness ==
  /\ pc = "done" /\ issymmetric /\ argType = "Matrix" /\ n = MaxN
  /\ IsSquareOf(V, n) /\ ~IsSquareOf(H, n) /\ ~HasLength(ort, n)

ForcedGeneralFormIsAccepted ==
  (argType = "Matrix, bool" /\ pc # "new") =>
    /\ pc # "ill_formed"
    /\ pc = "done" =>
         /\ ~issymmetric
         /\ FLt(FAbs(d[0]), Enc(144, -57)) /\ FLt(FAbs(e[0]), Enc(144, -57))

\* The active upper index of hqr2 starts at n-1.  A pass of the outer loop
\* that finds l = n takes 1 from it, one that finds l = n-1 takes 2, any
\* other pass leaves it and leaves d and e; a pass assigns d and e at the
\* indices it deflates and nowhere else.
ActiveIndexOnlyDeflates ==
  /\ [][pc = "hqr2" => (pc' = "hqr2_loop" /\ loc'.n = n - 1)]_vars
  /\ [][(pc = "hqr2_loop" /\ loc.n >= 0) =>
          \E sm \in {hqr2_small(Frame)} :
             /\ pc' = "hqr2_loop"
             /\ sm.l = loc.n => loc'.n = loc.n - 1
             /\ sm.l = loc.n - 1 => loc'.n = loc.n - 2
             /\ sm.l < loc.n - 1 => loc'.n = loc.n
             /\ \A i \in 0..(n - 1) :
                  i \notin (loc'.n + 1)..loc.n =>
                    /\ d'[i] = d[i] /\ e'[i] = e[i]
                    /\ loc'.dw[i] = loc.dw[i] /\ loc'.ew[i] = loc.ew[i]]_vars
  /\ [](pc = "hqr2_loop" => loc.n \in (-1)..(n - 1))
\* The indices above the active index are the assigned ones (so they are
\* finalised from the highest downward), and the back-substitution, which
\* reads d and e, starts when all are assigned.
AssignedAboveActiveIndex ==
  /\ pc = "hqr2_loop" =>
       \A i \in 0..(n - 1) :
          IF i > loc.n THEN loc.dw[i] >= 1 /\ loc.ew[i] >= 1
          ELSE loc.dw[i] = 0 /\ loc.ew[i] = 0 /\ d[i] = Indet /\ e[i] = Indet
  /\ pc = "hqr2_back" => \A i \in 0..(n - 1) : loc.dw[i] >= 1 /\ loc.ew[i] >= 1

\* C17 as stated: the active index changes only by deflation, by 1 or by 2,
\* and stays within -1..n-1; when the loop ends every index has had d and e
\* assigned exactly once, the highest first, none read before it is assigned.
DeflationAssignsExactlyOnce ==
  /\ ActiveIndexOnlyDeflates
  /\ [](AssignedAboveActiveIndex)
  /\ []((pc = "hqr2_loop" /\ loc.n < 0) =>
          \A i \in 0..(n - 1) : loc.dw[i] = 1 /\ loc.ew[i] = 1)

\* C17, amended: as stated, except that d at the upper index of a real pair
\* is assigned twice by the pass that deflates the pair when z is not zero
\* (d(n) = d(n-1), then d(n) = x - w / z); every other entry of d and every
\* entry of e is assigned exactly once.
DeflationAssignsInOnePass ==
  /\ ActiveIndexOnlyDeflates
  /\ [](AssignedAboveActiveIndex)
  /\ [](pc = "hqr2_loop" =>
          \A i \in (loc.n + 1)..(n - 1) :
             /\ loc.ew[i] = 1 /\ loc.dw[i] \in {1, 2}
             /\ loc.dw[i] = 2 =>
                  /\ i >= 1 /\ loc.dw[i - 1] = 1
                  /\ e[i] = Zero /\ e[i - 1] = Zero)
DeflationAssignsInOnePass_Witness ==
  /\ pc = "hqr2_loop" /\ loc.n = -1 /\ n = MaxN
  /\ \E i \in 0..(n - 1) : loc.dw[i] = 2

\* What MATLAB's ad hoc shift tests: ((y - x) / 2)^2 + w for the trailing
\* 2-by-2 block of the active matrix.
Discriminant ==
  Let([k \in {loc.n} |->
  Let([half \in {FDiv(FSub(H[k - 1][k - 1], H[k][k]), Two)} |->
    FAdd(FMul(half, half), FMul(H[k][k - 1], H[k - 1][k]))])])

\* C18: iter counts the sweeps since the last deflation: it starts at 0,
\* every sweep adds exactly one, every one-root and two-root deflation resets
\* it to 0.  A sweep applies Wilkinson's ad hoc shift exactly when it begins
\* with iter = 10, and MATLAB's exactly when it begins with iter = 30 and the
\* discriminant is positive; nothing else changes exshift.
ExceptionalShiftsAtTenAndThirty ==
  /\ [][pc = "hqr2" => (loc'.iter = 0 /\ loc'.exshift = Zero)]_vars
  /\ [][(pc = "hqr2_loop" /\ loc.n >= 0) =>
          \E sm \in {hqr2_small(Frame)} :
             IF sm.l < loc.n - 1
             THEN /\ loc.iter < IterCap => loc'.iter = loc.iter + 1
                  /\ loc'.wilkinson = loc.wilkinson + (IF loc.iter = 10 THEN 1 ELSE 0)
                  /\ loc'.matlab = loc.matlab +
                       (IF loc.iter = 30 /\ FGt(Discriminant, Zero) THEN 1 ELSE 0)
                  /\ (loc'.wilkinson = loc.wilkinson /\ loc'.matlab = loc.matlab)
                       => loc'.exshift = loc.exshift
             ELSE /\ loc'.iter = 0
                  /\ loc'.wilkinson = loc.wilkinson /\ loc'.matlab = loc.matlab
                  /\ loc'.exshift = loc.exshift]_vars
ExceptionalShiftsAtTenAndThirty_Witness ==
  /\ pc = "hqr2_loop" /\ loc.n = -1
  /\ loc.wilkinson = 1 /\ loc.matlab = 1 /\ FNe(loc.exshift, Zero)

\* d and the columns of V after the exchanges sw, each made on both at once.
Exchanged(sw, d0, V0) ==
  For(1, Len(sw), [d |-> d0, V |-> V0], LAMBDA c, t:
      [d |-> [j \in DOMAIN t.d |->
                IF j = sw[c][1] THEN t.d[sw[c][2]]
                ELSE IF j = sw[c][2] THEN t.d[sw[c][1]] ELSE t.d[j]],
       V |-> [i \in DOMAIN t.V |-> [j \in DOMAIN t.V[i] |->
                IF j = sw[c][1] THEN t.V[i][sw[c][2]]
                ELSE IF j = sw[c][2] THEN t.V[i][sw[c][1]] ELSE t.V[i][j]]]])
Ascending(v, k) == \A i, j \in 0..(k - 1) : i < j => FLe(v[i], v[j])

\* C19: the final sort of tql2 applies one permutation to d and to the
\* columns of V: each exchange of d[i] and d[k] comes with the exchange of
\* columns i and k, so the pairs (d[j], column j) after the sort are the pairs
\* before it, and when d is already ascending nothing is moved.
SortMovesPairsInLockstep ==
  [][(pc = "tql2_find" /\ loc.l = n) =>
       /\ pc' = "done"
       /\ \E p \in Perms(n) :
            \A j \in 0..(n - 1) :
               d'[j] = d[p[j]] /\ \A i \in 0..(n - 1) : V'[i][j] = V[i][p[j]]
       /\ \E x \in {Exchanged(steps'.swaps, d, V)} : d' = x.d /\ V' = x.V
       /\ \A c \in 1..Len(steps'.swaps) : steps'.swaps[c][1] < steps'.swaps[c][2]
       /\ Ascending(d, n) => (steps'.swaps = << >> /\ d' = d /\ V' = V)]_vars
SortMovesPairsInLockstep_Witness ==
  /\ pc = "done" /\ issymmetric /\ n = MaxN
  /\ Len(steps.swaps) >= 1
  /\ \E i, j \in 0..(n - 1) : i # j /\ FNe(V[i][j], Zero)

\* The frame of tred2 when the pass of its reduction loop for row i begins,
\* and the scale that pass computes.
Tred2RowEntry(i) ==
  ForDown(n - 1, i + 1,
          For(0, n - 1, [d |-> d, e |-> e, V |-> V, scale |-> Zero, h |-> Zero, f |-> Zero,
                         g |-> Zero, refl |-> {}, den |-> {}],
              LAMBDA j, t: [t EXCEPT !.d[j] = t.V[n - 1][j]]),
          tred2_reduce)
RowScale(i, s) ==
  For(0, i - 1, [v |-> Zero], LAMBDA k, a: [v |-> FAdd(a.v, FAbs(s.d[k]))]).v

\* C20: when the scale of row i is zero, tred2 forms no reflection and
\* divides by nothing for that row: it sets e[i] to d[i-1], reloads d[0..i-1]
\* from row i-1 of V, zeroes V[i][j] and V[j][i] for j < i and sets d[i] to 0;
\* and no division that tred2 executes has a zero denominator.
ZeroScaleSkipsAndNoDivisionByZero ==
  /\ pc = "tred2" =>
       \A i \in 1..(n - 1) :
          \E s \in {Tred2RowEntry(i)} : \E r \in {tred2_reduce(i, s)} :
             FEq(RowScale(i, s), Zero) =>
               /\ r.refl = s.refl /\ r.den = s.den
               /\ r.e[i] = s.d[i - 1] /\ r.d[i] = Zero
               /\ \A j \in 0..(i - 1) :
                    r.d[j] = s.V[i - 1][j] /\ r.V[i][j] = Zero /\ r.V[j][i] = Zero
  /\ Zero \notin steps.den

\* C21: the back-substitution of hqr2 never divides by zero: a zero pivot w
\* of a real eigenvector is replaced by eps * norm, a zero (vr, vi) of the
\* complex solve by eps * norm * (|w| + |q| + |x| + |y| + |z|), and every
\* other denominator is nonzero by the branch that selects the division.
BackSubstitutionNeverDividesByZero ==
  pc = "hqr2_back" =>
    \A dv \in loc.bden : ~(FEq(dv.re, Zero) /\ FEq(dv.im, Zero))

SquareConstructionAccessesInBounds ==
  size1 = size2 =>
    /\ pc # "undefined"
    /\ pc = "tql2_iter" => loc.l < loc.m /\ loc.m <= n - 1
    /\ (pc = "hqr2_loop" /\ loc.n >= 0) =>
         \E sm \in {hqr2_small(Frame)} :
           /\ 0 <= sm.l /\ sm.l <= loc.n
           /\ sm.l = loc.n - 1 => loc.n >= 1
           /\ sm.l < loc.n - 1 => loc.n >= 2

\* The sum of the amounts sq, accumulated the way hqr2 accumulates exshift.
Accumulated(sq) == For(1, Len(sq), [v |-> Zero], LAMBDA j, a: [v |-> FAdd(a.v, sq[j])]).v
\* C24: every exceptional shift subtracted from the active diagonal entries
\* of H is added to exshift in the same step; a diagonal entry gets the
\* accumulated exshift added back exactly once, when its index is deflated
\* and before its eigenvalue is recorded in d; the entries of deflated
\* indices are never shifted again.
ExshiftIsAddedBackOnceAtDeflation ==
  /\ [](pc = "hqr2_loop" =>
          /\ \A i \in 0..loc.n :
               loc.back[i] = << >> /\ Accumulated(loc.sub[i]) = loc.exshift
          /\ \A i \in (loc.n + 1)..(loc.nn - 1) :
               Len(loc.back[i]) = 1 /\ loc.back[i][1] = Accumulated(loc.sub[i]))
  /\ [][(pc = "hqr2_loop" /\ pc' = "hqr2_loop") =>
          \* deflated before this step: left alone
          /\ \A i \in (loc.n + 1)..(loc.nn - 1) :
               H'[i][i] = H[i][i] /\ loc'.sub[i] = loc.sub[i] /\ loc'.back[i] = loc.back[i]
          \* deflated in this step
          /\ loc'.n < loc.n =>
               /\ loc'.exshift = loc.exshift
               /\ \A i \in (loc'.n + 1)..loc.n : loc'.sub[i] = loc.sub[i]
               /\ loc'.n = loc.n - 1 =>   \* one root
                    H'[loc.n][loc.n] = FAdd(H[loc.n][loc.n], loc.exshift) /\ d'[loc.n] = H'[loc.n][loc.n]
               /\ (loc'.n = loc.n - 2 /\ FLt(e'[loc.n], Zero)) =>   \* complex pair
                    /\ \A i \in {loc.n - 1, loc.n} : H'[i][i] = FAdd(H[i][i], loc.exshift)
                    /\ \A i \in {loc.n - 1, loc.n} : d'[i] = FAdd(H'[loc.n][loc.n], loc'.p)
          \* a sweep: at most one shift, subtracted from every active entry
          /\ loc'.n = loc.n =>
               \/ loc'.exshift = loc.exshift /\ loc'.sub = loc.sub
               \/ \E sh \in {loc'.sub[loc.n][Len(loc'.sub[loc.n])]} :
                    /\ loc'.exshift = FAdd(loc.exshift, sh)
                    /\ \A i \in 0..loc.n : loc'.sub[i] = Append(loc.sub[i], sh)]_vars
\* hqr2 has deflated every index, a real root and a complex pair among them
\* after a shift that was not zero.
ExshiftIsAddedBackOnceAtDeflation_Witness ==
  /\ pc = "hqr2_loop" /\ loc.n = -1
  /\ \E i, j \in 0..(loc.nn - 1) :
       /\ Len(loc.sub[i]) >= 1 /\ loc.back[i] # <<Zero>> /\ FEq(e[i], Zero)
       /\ Len(loc.sub[j]) >= 1 /\ loc.back[j] # <<Zero>> /\ FLt(e[j], Zero)

\* C25: when the column scale x of a k other than m is zero, the double QR
\* step leaves H and V as they are for that k and goes on with k+1: it goes
\* through every column up to the last one of the active range.
ZeroColumnScaleSkipsOnlyThatColumn ==
  /\ [](pc = "hqr2_loop" /\ loc.n >= 0 =>
          \E sm \in {hqr2_small(Frame)} : sm.l < loc.n - 1 =>
            \E b \in {hqr2_bulge_start(sm.l, [Frame EXCEPT !.s = sm.s])} :
            \E r \in {hqr2_double_step(sm.l, b.m, b.fr)} :
              \A k \in (b.m + 1)..(loc.n - 1) :
                \E tk \in {For(b.m, k - 1, b.fr, LAMBDA j, t: hqr2_double_column(sm.l, b.m, j, t))} :
                  FEq(hqr2_column_scale(k, tk).x, Zero) =>
                    \E uk \in {hqr2_double_column(sm.l, b.m, k, tk)} :
                      /\ uk.H = tk.H /\ uk.V = tk.V
                      /\ \E rest \in {For(k + 1, loc.n - 1, uk,
                                          LAMBDA j, t: hqr2_double_column(sm.l, b.m, j, t))} :
                           r.H = rest.H /\ r.V = rest.V)
  /\ [][(pc = "hqr2_loop" /\ pc' = "hqr2_loop" /\ loc'.n = loc.n) =>
          /\ Len(loc'.cols) >= 1
          /\ loc'.cols[Len(loc'.cols)].k = loc.n - 1
          /\ \A i \in 1..(Len(loc'.cols) - 1) : loc'.cols[i + 1].k = loc'.cols[i].k + 1
          /\ H' = hqr2_iterate(hqr2_small(Frame).l, [Frame EXCEPT !.s = hqr2_small(Frame).s]).H]_vars
\* A double QR step has skipped a column and reflected the one after it.
ZeroColumnScaleSkipsOnlyThatColumn_Witness ==
  /\ pc = "hqr2_loop"
  /\ \E i \in 1..(Len(loc.cols) - 1) :
       /\ loc.cols[i].zero /\ ~loc.cols[i + 1].zero
       /\ loc.cols[i + 1].k = loc.cols[i].k + 1

\* C26: whenever tql2 is about to execute a QL step for index l, the
\* subdiagonal entry satisfies |e(l)| > eps * tst1 >= 0, the denominator
\* 2 * e(l) of the implicit shift is not zero, and l + 1 <= n - 1.
QLStepHasNonzeroSubdiagonal ==
  pc = "tql2_iter" =>
    /\ FGt(FAbs(e[loc.l]), FMul(eps, loc.tst1))
    /\ FGe(FMul(eps, loc.tst1), Zero)
    /\ FNe(FMul(Two, e[loc.l]), Zero)
    /\ loc.l + 1 <= n - 1

\* The input is square and upper triangular, and not symmetric.
UpperTriangularInput ==
  /\ size1 = size2
  /\ \A i, j \in 0..(size1 - 1) : i > j => A[i][j] = Zero
  /\ \E i, j \in 0..(size1 - 1) : i < j /\ A[i][j] # Zero
\* C27: for an upper triangular input that is not symmetric, orthes leaves
\* H equal to A and makes V the identity, hqr2 deflates one root in each pass
\* of its outer loop without a QR sweep (iter and exshift stay 0), and the
\* result is d(i) = A(i,i) in the original order and e(i) = 0.
UpperTriangularInputIsReadOff ==
  (UpperTriangularInput /\ pc # "new") =>
    /\ pc \in {"orthes", "hqr2", "hqr2_loop", "hqr2_back", "done"}
    /\ ~issymmetric
    /\ pc = "hqr2" => H = A /\ V = identity_matrix(n)
    /\ pc = "hqr2_loop" =>
         /\ loc.iter = 0 /\ loc.exshift = Zero
         /\ loc.n >= 0 => hqr2_small(Frame).l = loc.n
         /\ \A i \in (loc.n + 1)..(n - 1) : d[i] = A[i][i] /\ e[i] = Zero
    /\ pc = "done" => \A i \in 0..(n - 1) : d[i] = A[i][i] /\ e[i] = Zero

\* SymmetricMatrix(AR): the symmetric matrix assigned from a dense one keeps
\* the lower triangle (TRI = lower) and reads an entry above the diagonal from
\* its mirror image.
SymmetricMatrixOf_drops_lower(M, k) ==
  [i \in 0..(k - 1) |-> [j \in 0..(k - 1) |-> IF j >= i THEN M[i][j] ELSE Zero]]
SymmetricMatrixOf(M, k) ==
  [i \in 0..(k - 1) |-> [j \in 0..(k - 1) |-> IF j <= i THEN M[i][j] ELSE M[j][i]]]
\* A caller that constructed from a dense matrix and found isSymmetric() true
\* constructs a second decomposition from SymmetricMatrix(A), as the test
\* EigenvalueDecomposition(symmetric,random) does.
ConstructFromSymmetricMatrix ==
  /\ pc = "done" /\ ~first.constructed
  /\ argType = "Matrix" /\ size1 = size2 /\ issymmetric
  /\ first' = [constructed |-> TRUE, issymmetric |-> issymmetric, d |-> d, e |-> e, V |-> V]
  /\ argType' = "SymmetricMatrix"
  /\ A' = SymmetricMatrixOf(A, size1)
  /\ pc' = "new"
  /\ n' = Indet /\ issymmetric' \in BOOLEAN
  /\ d' = Empty /\ e' = Empty /\ V' = Empty /\ H' = Empty /\ ort' = Empty
  /\ loc' = NoLocals /\ D' = Empty /\ ret' = NoCall
  /\ calls' = << >> /\ flagWrites' = 0 /\ symChecks' = 0 /\ steps' = NoSteps
  /\ UNCHANGED <<size1, size2, checks>>

NextBoth == Next \/ ConstructFromSymmetricMatrix
SpecBoth == Init /\ [][NextBoth]_vars

\* C28: for a dense matrix A that is exactly symmetric, the construction from
\* A and the construction from the symmetric matrix holding the same entries
\* end the same way, with the flag true and the same d, e and V.
EntryPointsAgreeOnSymmetricData ==
  first.constructed =>
    /\ argType = "SymmetricMatrix"
    /\ pc \in {"new", "tred2", "tql2", "tql2_find", "tql2_iter", "tql2_sort", "done"}
    /\ pc = "done" =>
         /\ issymmetric /\ first.issymmetric
         /\ d = first.d /\ e = first.e /\ V = first.V
EntryPointsAgreeOnSymmetricData_Witness ==
  /\ first.constructed /\ pc = "done" /\ n = MaxN
  /\ \E i, j \in 0..(n - 1) : i < j /\ A[i][j] # Zero
  /\ \E i, j \in 0..(n - 1) : d[i] # d[j]
  /\ \E i \in 0..(n - 1) : V[i][i] # One
====
